---- MODULE Spec2Model ----
(***************************************************************************)
(* Verification model of the Thali notification layer.                     *)
(*                                                                         *)
(* Part 1: ThaliNotificationServer                                         *)
(*   (thali/NextGeneration/notification/thaliNotificationServer.js).       *)
(* One server object; callers issue start(publicKeysToNotify) and stop(),  *)
(* each of which enqueues a function on the server's promise queue.  The   *)
(* queue runs one function at a time; a function body is one synchronous   *)
(* JavaScript block and is therefore one atomic action.  Completions of    *)
(* the ThaliMobile transport promises and GET requests on the router are   *)
(* separate events.                                                        *)
(*                                                                         *)
(* Part 2: QuitSignal and the round validation functions of                *)
(*   test/www/jxcore/bv_tests/testThaliMobileNative.js.                    *)
(* Each part has its own specification; the variables of the other parts   *)
(* stay at their initial values.                                           *)
(***************************************************************************)
EXTENDS Integers, Sequences, FiniteSets, TLC

\* Number of start()/stop() calls issued on the server object in one run.
MaxCalls == 3

----------------------------------------------------------------------------
(* Values *)

\* The value null of _preambleAndBeacons ("no beacon"), and the empty body.
NULL == [keys |-> <<>>, epoch |-> 0]

\* Public keys a caller may pass.  "k1", "k2" are well-formed ECDH keys;
\* "str" is not of type object, "empty" is a zero-length buffer, "short" is a
\* non-empty buffer of the wrong length.
ValidKeys == {"k1", "k2"}

TypeOf(publicKey) == IF publicKey = "str" THEN "string" ELSE "object"

KeyLength(publicKey) ==
    CASE publicKey = "str"   -> 3
      [] publicKey = "empty" -> 0
      [] publicKey = "short" -> 5
      [] OTHER               -> 65

\* The arguments start() is called with: a value that is not an array, or an
\* array of keys.
NotAList == [isArray |-> FALSE, keys |-> <<>>]

KeyLists ==
    { <<>>, <<"k1">>, <<"k1", "k2">>,
      <<"str">>, <<"k1", "empty">>, <<"short">> }

StartArgs == {NotAList} \cup {[isArray |-> TRUE, keys |-> ks] : ks \in KeyLists}

\* Invocations of the (resolve, reject) handles of an enqueued function.
Resolve == "resolve"
RejectBadKeys == "reject: bad public keys"
RejectGenerate == "reject: generatePreambleAndBeacons failed"
RejectTransport == "reject: transport error"

CallIds == 1..MaxCalls

----------------------------------------------------------------------------
(* State *)

VARIABLES
    calls,                       \* start()/stop() calls in the order issued
    queue,                       \* _promiseQueue: ids enqueued, not yet begun
    beginOrder,                  \* ids of the functions begun, in order
    handles,                     \* per call: handle invocations, in order
    preambleAndBeacons,          \* self._preambleAndBeacons
    firstStartCall,              \* self._firstStartCall
    routerGets,                  \* handlers registered with self._router.get
    previousPreambleAndBeacons,  \* per call: the local of line 80
    resultingPreambleAndBeacons, \* per call: _preambleAndBeacons when the
                                 \* function body returned
    refreshCalls,                \* per call: startUpdateAdvertisingAndListening calls
    stopCalls,                   \* per call: stopAdvertisingAndListening calls
    transport,                   \* per call: state of its ThaliMobile promise
    lastResponse                 \* the response to the latest GET request

vars == <<calls, queue, beginOrder, handles, preambleAndBeacons,
          firstStartCall, routerGets, previousPreambleAndBeacons,
          resultingPreambleAndBeacons, refreshCalls, stopCalls, transport,
          lastResponse>>

NoResponse == [status |-> 0, contentType |-> "", cacheControl |-> "", body |-> NULL]

\* A QuitSignal object, the timers it is told about and what its callers see.
VARIABLES
    raised,          \* QuitSignal.raised
    timeOuts,        \* QuitSignal.timeOuts: array of {timeOut, successCb}
    cancelCalls,     \* QuitSignal.cancelCalls: array of callbacks
    timers,          \* per timer handle: unset, armed, fired or cleared
    callbackLog,     \* the callbacks the signal has invoked, in order
    withdrawn,       \* timeOuts entries whose handle was given to removeTimeout
    signalCalls,     \* number of calls made on the signal
    raiseSignalCalls,\* number of those that were raiseSignal()
    lastSignalCall   \* the latest call made on the signal and how it ended

quitSignalVars == <<raised, timeOuts, cancelCalls, timers, callbackLog,
                    withdrawn, signalCalls, raiseSignalCalls, lastSignalCall>>

\* One application of validateRequest and validateServerResponse.
VARIABLES
    parsedMessage,       \* the parsed message (uuid, code, bulkData)
    roundNumber,         \* the round the receiver is in
    requestResult,       \* what validateRequest returned, "" before the call
    serverResponseResult \* what validateServerResponse returned, "" before

validationVars == <<parsedMessage, roundNumber, requestResult,
                    serverResponseResult>>

\* One run of the test 'Test updating advertising and parallel data transfer'
\* on the local peer: its two rounds, each with a client and a server role.
VARIABLES
    testStatus,              \* "running" until t.end() is called
    testFailed,              \* t.fail() or a failed t.notOk() has been called
    clientQuitSignal,        \* the test's variable clientQuitSignal (an object)
    serverQuitSignal,        \* the test's variable serverQuitSignal (an object)
    signals,                 \* per QuitSignal object: its fields
    clientPromise,           \* per round: the promise clientRound returned
    serverPromise,           \* per round: the promise serverRound returned
    roundPromise,            \* per round: the promise of Promise.all([...])
    clientSignalOf,          \* per round: the quitSignal clientRound was given
    serverSignalOf,          \* per round: the quitSignal serverRound was given
    boundListener,           \* boundListener.listener: the round it belongs to
    muxListeners,            \* rounds whose connectionListener is on pretendLocalMux
    nativeCall,              \* round 1's startUpdateAdvertisingAndListening call
    peersWeAreOrHaveResolved,\* per round, clientRound's table of that name
    peersWeSucceededWith,    \* per round, clientRound's table of that name
    batches,                 \* per listener call: its Promise.all(peerPromises)
    attempts,                \* the peer promises that have not settled
    validPeersForThisRound,  \* per round, serverRound's array of that name
    sockets                  \* the inbound connections that delivered a message

roundVars == <<testStatus, testFailed, clientQuitSignal, serverQuitSignal,
               signals, clientPromise, serverPromise, roundPromise,
               clientSignalOf, serverSignalOf, boundListener, muxListeners,
               nativeCall, peersWeAreOrHaveResolved, peersWeSucceededWith,
               batches, attempts, validPeersForThisRound, sockets>>

\* Round 0 of the same test on all three participants at once.
VARIABLES
    stageOf,           \* per peer: "round 0", "round 1 starting" or "round 1"
    succeededWithOf,   \* per peer: peersWeSucceededWith of its round 0
    resolvingOf,       \* per peer: peersWeAreOrHaveResolved of its round 0
    validPeersOf,      \* per peer: validPeersForThisRound of its round 0
    clientResolvedOf,  \* per peer: clientRound(t, 0, ...) has resolved
    serverResolvedOf,  \* per peer: serverRound(t, 0, ...) has resolved
    exchanges,         \* the connections of round 0 clients that are open
    failures           \* connections a client gave up so far

endToEndVars == <<stageOf, succeededWithOf, resolvingOf, validPeersOf,
                  clientResolvedOf, serverResolvedOf, exchanges, failures>>

\* A PeerIdentifier value and the calls made on it.
VARIABLES
    peerIdentifier,    \* the PeerIdentifier value held, if any
    generations,       \* the generations of the values held since the last
                       \* construction by init() or init(stringValue:)
    fromInit,          \* whether that construction was init()
    stringValue,       \* the string this run gives to init(stringValue:)
    lastCall           \* the latest call and what it gave

peerIdentifierVars == <<peerIdentifier, generations, fromInit, stringValue,
                        lastCall>>

\* The test 'We do not emit peerAvailabilityChanged events until one of the
\* start methods is called' on the participant with the smallest uuid, and
\* the native transport it calls.
VARIABLES
    methodsInEffect,      \* transport: the start methods in effect
    startCalled,          \* a start method has been called
    eventQueue,           \* peerAvailabilityChanged events emitted, not yet
                          \* delivered to the registered callback: the
                          \* peerAvailable of each, in order
    pendingCalls,         \* the native calls made and not completed, in order
    completedStops,       \* the stop methods that have completed
    readyToReceiveEvents, \* the test's variable of that name
    gotFirstChanged,      \* the test's variable of that name
    tooSoon,              \* t.fail('We got an availability event too soon')
    availabilityPhase     \* which of the test's timers is armed

availabilityVars == <<methodsInEffect, startCalled, eventQueue, pendingCalls,
                      completedStops, readyToReceiveEvents, gotFirstChanged,
                      tooSoon, availabilityPhase>>

\* The test 'Client to server request coordinated' of
\* testThaliNotification.js on one participant, with the notification client
\* it listens to and the other participants it talks to.
VARIABLES
    beaconEpochOf,        \* per remote peer: the generation of the beacons it
                          \* serves, all of them addressed to us
    clientListening,      \* the notification client is started, not stopped
    lastFetched,          \* the client's per-peer dedupe state: the generation
                          \* it parsed last, 0 for none
    emittedEpochs,        \* per peer: the generations for which the client
                          \* emitted PeerAdvertisesDataForUs, in order
    peerAdvertisesDataForUsEvents, \* the test's dictionary of that name
    peerRepliedToUs,      \* the test's dictionary of that name
    peerRequestedUs,      \* the test's dictionary of that name
    failedPskIdentityCount, \* the test's counter of that name
    httpsRequests,        \* the https requests to peers that are under way
    coordinatedResult     \* the arguments of the three t.ok of the final check

notificationVars == <<beaconEpochOf, clientListening, lastFetched,
                      emittedEpochs, peerAdvertisesDataForUsEvents,
                      peerRepliedToUs, peerRequestedUs, failedPskIdentityCount,
                      httpsRequests, coordinatedResult>>

\* The parts of the state added after the round validation.
laterVars == <<roundVars, endToEndVars, peerIdentifierVars, availabilityVars,
               notificationVars>>

\* What the actions of the two rounds leave alone.
nonRoundVars == <<vars, quitSignalVars, validationVars, endToEndVars,
                  peerIdentifierVars, availabilityVars, notificationVars>>

\* What the actions of the three participants leave alone.
nonEndToEndVars == <<vars, quitSignalVars, validationVars, roundVars,
                     peerIdentifierVars, availabilityVars, notificationVars>>

\* What the calls on a PeerIdentifier leave alone.
nonPeerIdentifierVars == <<vars, quitSignalVars, validationVars, roundVars,
                           endToEndVars, availabilityVars, notificationVars>>

\* What the availability test and the transport leave alone.
nonAvailabilityVars == <<vars, quitSignalVars, validationVars, roundVars,
                         endToEndVars, peerIdentifierVars, notificationVars>>

\* What the coordinated notification test leaves alone.
nonNotificationVars == <<vars, quitSignalVars, validationVars, roundVars,
                         endToEndVars, peerIdentifierVars, availabilityVars>>

\* What the actions of the notification server leave alone.
nonServerVars == <<quitSignalVars, validationVars, laterVars>>

allVars == <<vars, quitSignalVars, validationVars, laterVars>>

----------------------------------------------------------------------------
(* QuitSignal: values and the constructor *)

\* Timer handles, as returned by setTimeout.
TimerHandles == {"t1", "t2"}

\* The element delete leaves in the timeOuts array: Object.keys and forEach
\* skip it.
Hole == [ref |-> 0, timeOut |-> "", successCb |-> 0]

\* The object addTimeout pushes as the n-th element: a new object (ref is its
\* identity) holding the handle and the n-th successCb.
TimeOutStruct(n, timeOut) == [ref |-> n, timeOut |-> timeOut, successCb |-> n]

\* A value passed to removeTimeout: a timer handle, or a reference to an
\* element of the timeOuts array.
HandleValue(timeOut) == [timer |-> timeOut, struct |-> 0]
StructValue(n) == [timer |-> "", struct |-> n]

NoSignalCall == [op |-> "", threw |-> FALSE]

\* new QuitSignal(), lines 938-942; no timer has been set and no call made.
QuitSignalInit ==
    /\ raised = FALSE
    /\ timeOuts = <<>>
    /\ cancelCalls = <<>>
    /\ timers = [h \in TimerHandles |-> "unset"]
    /\ callbackLog = <<>>
    /\ withdrawn = {}
    /\ signalCalls = 0
    /\ raiseSignalCalls = 0
    /\ lastSignalCall = NoSignalCall

----------------------------------------------------------------------------
(* Round validation: values *)

\* t.participants (their uuids) and tape.uuid, the local participant.
Participants == <<"A", "B", "C">>
LocalUuid == "A"

\* Uuids a message may carry: the participants and a stranger.
Uuids == {"A", "B", "C", "X"}

\* protocolResult, lines 998-1009.
WRONG_GEN == "0"
WRONG_TEST == "1"
SUCCESS == "2"
WRONG_ME == "3"
WRONG_SYNTAX == "4"

\* The one-byte code field of a message: a result code, a round number, or
\* some other character.
Codes == {"0", "1", "2", "3", "4", "5"}

\* validateResponse, lines 1036-1040.
FATAL == "fatal"
NON_FATAL == "non-fatal"
OK == "ok"

\* Length of the bulk payload in the model (the code's buffer holds 100000
\* bytes).
BulkLength == 3

\* bulkMessage, lines 986-987: a buffer filled with 1.
BulkMessage == [i \in 1..BulkLength |-> 1]

\* Payloads of the right length a message may carry: the canonical one, or
\* one with its first or its last byte changed.
BulkDatas ==
    { BulkMessage,
      [BulkMessage EXCEPT ![1] = 0],
      [BulkMessage EXCEPT ![BulkLength] = 2] }

\* The rounds the test runs, 0 and then 1.
Rounds == {0, 1}

Messages == [uuid : Uuids, code : Codes, bulkData : BulkDatas]

NoMessage == [uuid |-> "", code |-> "", bulkData |-> <<>>]

\* No message has been received.
ValidationIdle ==
    /\ parsedMessage = NoMessage
    /\ roundNumber = 0
    /\ requestResult = ""
    /\ serverResponseResult = ""

----------------------------------------------------------------------------
(* The two rounds of the test: values and the state the test starts in *)

\* peer.peerIdentifier of the remote peers the transport reports.  There
\* may be more of them than remote participants: a participant is reported
\* under a new peerIdentifier when it advertises anew.
PeerIdentifiers == {"p1", "p2", "p3"}

\* The peerIdentifiers of the two remote participants when neither has
\* advertised anew.
ParticipantIdentifiers == {"p1", "p2"}

\* The uuids of the participants other than the local one.
OtherParticipants == {"B", "C"}

\* new QuitSignal(), lines 938-942.
NewQuitSignal == [raised |-> FALSE, timeOuts |-> <<>>, cancelCalls |-> <<>>]

\* boundListener.listener is null (line 1309).
NoListener == -1

\* The QuitSignal a role of a round not yet started was given: none.
NoSignal == 0

\* The test function has run (lines 1299-1344): it made two QuitSignals,
\* called clientRound(t, 0, ...), which set boundListener.listener, and
\* serverRound(t, 0, ...), which registered its cancel call (callback 1 of
\* its signal) and put its connectionListener on pretendLocalMux.
RoundInit ==
    /\ testStatus = "running"
    /\ testFailed = FALSE
    /\ clientQuitSignal = 1
    /\ serverQuitSignal = 2
    /\ signals = <<NewQuitSignal,
                   [NewQuitSignal EXCEPT !.cancelCalls = <<1>>]>>
    /\ clientPromise = [r \in Rounds |-> IF r = 0 THEN "pending" ELSE "none"]
    /\ serverPromise = [r \in Rounds |-> IF r = 0 THEN "pending" ELSE "none"]
    /\ roundPromise = [r \in Rounds |-> IF r = 0 THEN "pending" ELSE "none"]
    /\ clientSignalOf = [r \in Rounds |-> IF r = 0 THEN 1 ELSE NoSignal]
    /\ serverSignalOf = [r \in Rounds |-> IF r = 0 THEN 2 ELSE NoSignal]
    /\ boundListener = 0
    /\ muxListeners = {0}
    /\ nativeCall = "none"
    /\ peersWeAreOrHaveResolved = [r \in Rounds |-> {}]
    /\ peersWeSucceededWith = [r \in Rounds |-> {}]
    /\ batches = <<>>
    /\ attempts = {}
    /\ validPeersForThisRound = [r \in Rounds |-> <<>>]
    /\ sockets = <<>>

\* The participants of the test.
Peers == {Participants[i] : i \in DOMAIN Participants}

\* The test function has run on every participant.
EndToEndInit ==
    /\ stageOf = [p \in Peers |-> "round 0"]
    /\ succeededWithOf = [p \in Peers |-> {}]
    /\ resolvingOf = [p \in Peers |-> {}]
    /\ validPeersOf = [p \in Peers |-> <<>>]
    /\ clientResolvedOf = [p \in Peers |-> FALSE]
    /\ serverResolvedOf = [p \in Peers |-> FALSE]
    /\ exchanges = {}
    /\ failures = 0

\* No PeerIdentifier value: stands for the value not yet constructed and for
\* the result of a call that threw.
NoPeerIdentifier == [uuid |-> <<>>, generation |-> 0, none |-> TRUE]

PeerIdentifierValue(uuid, generation) ==
    [uuid |-> uuid, generation |-> generation, none |-> FALSE]

NoCall == [op |-> "", threw |-> FALSE, before |-> NoPeerIdentifier,
           result |-> NoPeerIdentifier]

\* No PeerIdentifier has been constructed; the string is s.
PeerIdentifierStart(s) ==
    /\ peerIdentifier = NoPeerIdentifier
    /\ generations = <<>>
    /\ fromInit = FALSE
    /\ stringValue = s
    /\ lastCall = NoCall

PeerIdentifierInit == PeerIdentifierStart(<<>>)

\* The test function has run on the participant with the smallest uuid
\* (lines 885-935): the callback is registered, the first timer is set and
\* no native method has been called.
AvailabilityInit ==
    /\ methodsInEffect = {}
    /\ startCalled = FALSE
    /\ eventQueue = <<>>
    /\ pendingCalls = <<>>
    /\ completedStops = {}
    /\ readyToReceiveEvents = FALSE
    /\ gotFirstChanged = FALSE
    /\ tooSoon = FALSE
    /\ availabilityPhase = "waiting"

\* The public key hashes of the other participants, the keys of the test's
\* dictionaries.
PublicKeyHashes == {"h1", "h2"}

\* The final check has not run.
NotChecked == [checked |-> FALSE, repliedToUs |-> FALSE,
               requestedUs |-> FALSE, noFailedPsk |-> FALSE]

\* The test function has run up to the calls of lines 266-275 (these have
\* not completed): the dictionaries hold 0 for every other participant
\* (lines 176-178), the client is not started.
NotificationInit ==
    /\ beaconEpochOf = [h \in PublicKeyHashes |-> 1]
    /\ clientListening = FALSE
    /\ lastFetched = [h \in PublicKeyHashes |-> 0]
    /\ emittedEpochs = [h \in PublicKeyHashes |-> <<>>]
    /\ peerAdvertisesDataForUsEvents = [h \in PublicKeyHashes |-> 0]
    /\ peerRepliedToUs = [h \in PublicKeyHashes |-> 0]
    /\ peerRequestedUs = [h \in PublicKeyHashes |-> 0]
    /\ failedPskIdentityCount = 0
    /\ httpsRequests = {}
    /\ coordinatedResult = NotChecked

\* The state of the parts added after the round validation, for the
\* specifications that leave them alone.
LaterIdle ==
    /\ RoundInit
    /\ EndToEndInit
    /\ PeerIdentifierInit
    /\ AvailabilityInit
    /\ NotificationInit

----------------------------------------------------------------------------
(* Promise and promise queue *)

\* A promise is settled by the first invocation of one of its handles; later
\* invocations have no effect.
PromiseState(id) ==
    IF handles[id] = <<>> THEN "pending"
    ELSE IF Head(handles[id]) = Resolve THEN "resolved" ELSE "rejected"

Settled(id) == PromiseState(id) # "pending"

\* PromiseQueue: the function at the head of the queue may begin once every
\* function enqueued before it has begun and its promise has settled.
CanBegin(id) ==
    /\ queue # <<>>
    /\ id = Head(queue)
    /\ \A other \in 1..Len(calls) :
          other < id => (\E n \in DOMAIN beginOrder : beginOrder[n] = other)
                        /\ Settled(other)

Enqueue(q, id) == Append(q, id)

----------------------------------------------------------------------------
(* Beacon generation *)

\* NotificationBeacons.generatePreambleAndBeacons: throws when a key is
\* malformed (wrong type or length); otherwise returns a fresh blob for the
\* keys.  The epoch stands for the fresh ephemeral key, random secrets and
\* expiration of one generation.
GenerateThrows(publicKeysToNotify) ==
    \E i \in DOMAIN publicKeysToNotify : publicKeysToNotify[i] \notin ValidKeys

GeneratePreambleAndBeacons(publicKeysToNotify, id) ==
    [keys |-> publicKeysToNotify, epoch |-> id]

\* The key pairs a receiver may hold, named by their public key; "k3" is
\* never among the keys to notify.
LocalKeyPairs == ValidKeys \cup {"k3"}

\* The tag of a record: derived from the recipient's key and the ephemeral
\* key of the generation, by the sender from the recipient's public key and
\* by the receiver from its own key pair.
BeaconTag(publicKey, epoch) == [publicKeyHash |-> publicKey, epoch |-> epoch]

\* The secret a generation holds for one recipient.
BeaconSecret(publicKey, epoch) == <<"secret", publicKey, epoch>>

\* The records of a blob, one per key notified: the tag and the secret,
\* encrypted for that recipient.
BeaconRecords(blob) ==
    [i \in DOMAIN blob.keys |->
        [tag |-> BeaconTag(blob.keys[i], blob.epoch),
         encryptedFor |-> blob.keys[i],
         secret |-> BeaconSecret(blob.keys[i], blob.epoch)]]

NoSecret == <<>>

\* parse(blob, localKeyPair): the records whose tag is the one derived from
\* the local key pair; on a match the payload of one is decrypted with it.
ParseBeacons(blob, localKeyPair) ==
    LET records == BeaconRecords(blob)
        hits == {i \in DOMAIN records :
                    records[i].tag = BeaconTag(localKeyPair, blob.epoch)}
    IN  IF hits = {}
        THEN [matched |-> FALSE, secret |-> NoSecret]
        ELSE LET record == records[CHOOSE i \in hits : TRUE]
             IN  [matched |-> TRUE,
                  secret |-> IF record.encryptedFor = localKeyPair
                             THEN record.secret ELSE NoSecret]

----------------------------------------------------------------------------
(* ThaliNotificationServer.prototype.start *)

\* Line 88: the check start() applies to each key.
IsMalformed(publicKey) ==
    TypeOf(publicKey) # "object" \/ KeyLength(publicKey) = 0

\* Lines 87-91: one reject per malformed key; the return leaves only the
\* forEach callback, not the enqueued function.
BadKeyRejects(publicKeysToNotify) ==
    LET bad == SelectSeq(publicKeysToNotify, IsMalformed)
    IN  [i \in 1..Len(bad) |-> RejectBadKeys]

NeedsRefreshNewOnly(new, previous) == new # NULL

NeedsRefreshAlways(new, previous) == TRUE

NeedsRefreshXor(new, previous) == (new # NULL) # (previous # NULL)

NeedsRefreshAnd(new, previous) == new # NULL /\ previous # NULL

\* Lines 116-117: whether startUpdateAdvertisingAndListening is called.
NeedsRefresh(new, previous) == new # NULL \/ previous # NULL

StartBodyGeneratesForFirst(previous, arg, id) ==
    IF ~arg.isArray
    THEN [pb |-> previous, invoked |-> <<RejectBadKeys>>,
          completed |-> FALSE, refresh |-> FALSE]
    ELSE IF Len(arg.keys) > 0 /\ GenerateThrows(arg.keys)
    THEN [pb |-> previous,
          invoked |-> BadKeyRejects(arg.keys) \o <<RejectGenerate>>,
          completed |-> FALSE, refresh |-> FALSE]
    ELSE LET new == IF Len(arg.keys) > 0
                    THEN GeneratePreambleAndBeacons(<<arg.keys[1]>>, id)
                    ELSE NULL
         IN  [pb |-> new,
              invoked |-> BadKeyRejects(arg.keys) \o <<Resolve>>,
              completed |-> TRUE, refresh |-> NeedsRefresh(new, previous)]

StartBodyAssignFirst(previous, arg, id) ==
    IF ~arg.isArray
    THEN [pb |-> previous, invoked |-> <<RejectBadKeys>>,
          completed |-> FALSE, refresh |-> FALSE]
    ELSE IF Len(arg.keys) > 0 /\ GenerateThrows(arg.keys)
    THEN [pb |-> NULL,
          invoked |-> BadKeyRejects(arg.keys) \o <<RejectGenerate>>,
          completed |-> FALSE, refresh |-> FALSE]
    ELSE LET new == IF Len(arg.keys) > 0
                    THEN GeneratePreambleAndBeacons(arg.keys, id)
                    ELSE NULL
         IN  [pb |-> new,
              invoked |-> BadKeyRejects(arg.keys) \o <<Resolve>>,
              completed |-> TRUE, refresh |-> NeedsRefresh(new, previous)]

\* Lines 80-127, the synchronous body of the function start() enqueues, run
\* with _preambleAndBeacons = previous:
\*   pb        _preambleAndBeacons when the body returns
\*   invoked   the handle invocations the body makes, in order
\*   completed whether the body got past generation (line 107 onwards)
\*   refresh   whether it called startUpdateAdvertisingAndListening
StartBody(previous, arg, id) ==
    IF ~arg.isArray
    THEN [pb |-> previous, invoked |-> <<RejectBadKeys>>,
          completed |-> FALSE, refresh |-> FALSE]
    ELSE IF Len(arg.keys) > 0 /\ GenerateThrows(arg.keys)
    THEN [pb |-> previous,
          invoked |-> BadKeyRejects(arg.keys) \o <<RejectGenerate>>,
          completed |-> FALSE, refresh |-> FALSE]
    ELSE LET new == IF Len(arg.keys) > 0
                    THEN GeneratePreambleAndBeacons(arg.keys, id)
                    ELSE NULL
         IN  [pb |-> new,
              invoked |-> BadKeyRejects(arg.keys) \o <<Resolve>>,
              completed |-> TRUE, refresh |-> NeedsRefresh(new, previous)]

\* The handle invocation made when the ThaliMobile promise of a start()
\* completes (lines 120-125).
StartTransportHandle(ok) == IF ok THEN Resolve ELSE RejectTransport

StopTransportHandleSwallow(ok) == Resolve

\* The handle invocation made when the ThaliMobile promise of a stop()
\* completes (lines 148-153).
StopTransportHandle(ok) == IF ok THEN Resolve ELSE RejectTransport

----------------------------------------------------------------------------
(* _registerNotificationPath *)

GetBeaconNotificationsEcho(pb) ==
    [status |-> 200, contentType |-> "application/octet-stream",
     cacheControl |-> "no-cache", body |-> pb]

\* Lines 171-180: the GET handler.
GetBeaconNotifications(pb) ==
    IF pb = NULL
    THEN [status |-> 204, contentType |-> "", cacheControl |-> "", body |-> NULL]
    ELSE [status |-> 200, contentType |-> "application/octet-stream",
          cacheControl |-> "no-cache", body |-> pb]

----------------------------------------------------------------------------
(* Initial state: the constructor, lines 35-41 *)

ServerInit ==
    /\ calls = <<>>
    /\ queue = <<>>
    /\ beginOrder = <<>>
    /\ handles = [id \in CallIds |-> <<>>]
    /\ preambleAndBeacons = NULL
    /\ firstStartCall = TRUE
    /\ routerGets = 0
    /\ previousPreambleAndBeacons = [id \in CallIds |-> NULL]
    /\ resultingPreambleAndBeacons = [id \in CallIds |-> NULL]
    /\ refreshCalls = [id \in CallIds |-> 0]
    /\ stopCalls = [id \in CallIds |-> 0]
    /\ transport = [id \in CallIds |-> "idle"]
    /\ lastResponse = NoResponse

\* A server object and a QuitSignal object have been constructed.
Init ==
    /\ ServerInit
    /\ QuitSignalInit
    /\ ValidationIdle
    /\ LaterIdle

----------------------------------------------------------------------------
(* Actions *)

StopBeaconsKeep(previous) == previous

\* Line 146: what stop() makes of _preambleAndBeacons.
StopBeacons(previous) == NULL

\* The body of the function stop() enqueues (lines 146-153), run as call id.
RunStop(id) ==
    /\ beginOrder' = Append(beginOrder, id)
    /\ previousPreambleAndBeacons' =
          [previousPreambleAndBeacons EXCEPT ![id] = preambleAndBeacons]
    /\ preambleAndBeacons' = StopBeacons(preambleAndBeacons)
    /\ resultingPreambleAndBeacons' =
          [resultingPreambleAndBeacons EXCEPT ![id] = StopBeacons(preambleAndBeacons)]
    /\ stopCalls' = [stopCalls EXCEPT ![id] = @ + 1]
    /\ transport' = [transport EXCEPT ![id] = "pending"]
    /\ UNCHANGED <<handles, firstStartCall, routerGets, refreshCalls,
                   lastResponse, nonServerVars>>

\* start(publicKeysToNotify), lines 76-79: enqueue the function.
StartCall ==
    /\ Len(calls) < MaxCalls
    /\ \E arg \in StartArgs :
          calls' = Append(calls, [kind |-> "start", arg |-> arg])
    /\ queue' = Enqueue(queue, Len(calls) + 1)
    /\ UNCHANGED <<beginOrder, handles, preambleAndBeacons, firstStartCall,
                   routerGets, previousPreambleAndBeacons,
                   resultingPreambleAndBeacons, refreshCalls, stopCalls,
                   transport, lastResponse, nonServerVars>>

StopCallDirect ==
    /\ Len(calls) < MaxCalls
    /\ calls' = Append(calls, [kind |-> "stop", arg |-> NotAList])
    /\ queue' = queue
    /\ RunStop(Len(calls) + 1)

\* stop(), lines 143-145: enqueue the function.
StopCall ==
    /\ Len(calls) < MaxCalls
    /\ calls' = Append(calls, [kind |-> "stop", arg |-> NotAList])
    /\ queue' = Enqueue(queue, Len(calls) + 1)
    /\ UNCHANGED <<beginOrder, handles, preambleAndBeacons, firstStartCall,
                   routerGets, previousPreambleAndBeacons,
                   resultingPreambleAndBeacons, refreshCalls, stopCalls,
                   transport, lastResponse, nonServerVars>>

\* The queue begins the function a start() enqueued: lines 80-127.
ExecStart ==
    \E id \in CallIds :
       /\ CanBegin(id)
       /\ calls[id].kind = "start"
       /\ LET r == StartBody(preambleAndBeacons, calls[id].arg, id)
          IN  /\ queue' = Tail(queue)
              /\ beginOrder' = Append(beginOrder, id)
              /\ previousPreambleAndBeacons' =
                    [previousPreambleAndBeacons EXCEPT ![id] = preambleAndBeacons]
              /\ preambleAndBeacons' = r.pb
              /\ resultingPreambleAndBeacons' =
                    [resultingPreambleAndBeacons EXCEPT ![id] = r.pb]
              /\ handles' = [handles EXCEPT ![id] = @ \o r.invoked]
              /\ IF r.completed /\ firstStartCall
                 THEN /\ routerGets' = routerGets + 1
                      /\ firstStartCall' = FALSE
                 ELSE UNCHANGED <<routerGets, firstStartCall>>
              /\ IF r.refresh
                 THEN /\ refreshCalls' = [refreshCalls EXCEPT ![id] = @ + 1]
                      /\ transport' = [transport EXCEPT ![id] = "pending"]
                 ELSE UNCHANGED <<refreshCalls, transport>>
              /\ UNCHANGED <<calls, stopCalls, lastResponse, nonServerVars>>

\* The queue begins the function a stop() enqueued: lines 146-153.
ExecStop ==
    \E id \in CallIds :
       /\ CanBegin(id)
       /\ calls[id].kind = "stop"
       /\ queue' = Tail(queue)
       /\ RunStop(id)
       /\ UNCHANGED calls

\* The promise of ThaliMobile.startUpdateAdvertisingAndListening or
\* ThaliMobile.stopAdvertisingAndListening completes: the .then / .catch
\* callback of the call that made it runs.
TransportComplete ==
    \E id \in CallIds, ok \in BOOLEAN :
       /\ transport[id] = "pending"
       /\ transport' = [transport EXCEPT ![id] = IF ok THEN "ok" ELSE "failed"]
       /\ handles' = [handles EXCEPT ![id] =
             Append(@, IF calls[id].kind = "start"
                       THEN StartTransportHandle(ok)
                       ELSE StopTransportHandle(ok))]
       /\ UNCHANGED <<calls, queue, beginOrder, preambleAndBeacons,
                      firstStartCall, routerGets, previousPreambleAndBeacons,
                      resultingPreambleAndBeacons, refreshCalls, stopCalls,
                      lastResponse, nonServerVars>>

\* A GET /NotificationBeacons request reaches the registered handler.
Get ==
    /\ routerGets > 0
    /\ lastResponse' = GetBeaconNotifications(preambleAndBeacons)
    /\ UNCHANGED <<calls, queue, beginOrder, handles, preambleAndBeacons,
                   firstStartCall, routerGets, previousPreambleAndBeacons,
                   resultingPreambleAndBeacons, refreshCalls, stopCalls,
                   transport, nonServerVars>>

Next ==
    \/ StartCall
    \/ StopCall
    \/ ExecStart
    \/ ExecStop
    \/ TransportComplete
    \/ Get

Spec == Init /\ [][Next]_vars

----------------------------------------------------------------------------
(* Properties of the notification server *)

Begun(id) == \E n \in DOMAIN beginOrder : beginOrder[n] = id

IsStart(id) == id \in 1..Len(calls) /\ calls[id].kind = "start"

BegunStarts == {id \in 1..Len(calls) : IsStart(id) /\ Begun(id)}

EmptyList == [isArray |-> TRUE, keys |-> <<>>]

\* The call's input is a list, no key of it is malformed and generation
\* does not fail.
PassesValidationAndGeneration(arg) ==
    /\ arg.isArray
    /\ \A i \in DOMAIN arg.keys : ~IsMalformed(arg.keys[i])
    /\ ~(Len(arg.keys) > 0 /\ GenerateThrows(arg.keys))

AllSettled ==
    /\ queue = <<>>
    /\ \A id \in 1..Len(calls) : Settled(id)

\* _preambleAndBeacons after the first n calls are applied one at a time, each
\* run to completion before the next, in the order issued.
RECURSIVE SequentialState(_)
SequentialState(n) ==
    IF n = 0 THEN NULL
    ELSE IF calls[n].kind = "start"
         THEN StartBody(SequentialState(n - 1), calls[n].arg, n).pb
         ELSE StopBeacons(SequentialState(n - 1))

\* C1: functions enqueued in the order A, B, C begin in that order; B has not
\* begun unless the promise of every function enqueued before it has settled;
\* and once they have settled, resolved or rejected, B may begin.
C1_FifoOneAtATime ==
    /\ \A n \in DOMAIN beginOrder : beginOrder[n] = n
    /\ \A n \in DOMAIN beginOrder :
          \A earlier \in 1..Len(calls) :
             earlier < beginOrder[n] => Settled(earlier)
    /\ (queue # <<>> /\ \A earlier \in 1..Len(calls) :
                           earlier < Head(queue) => Settled(earlier))
          => ENABLED (ExecStart \/ ExecStop)

\* C1 witness: three functions have begun, in order, after the first rejected.
C1_Witness ==
    /\ beginOrder = <<1, 2, 3>>
    /\ PromiseState(1) = "rejected"
    /\ PromiseState(2) = "resolved"

\* C2: once all the start()/stop() calls issued have settled, the published
\* beacon state is the one obtained by applying the calls one at a time in
\* the order they were issued.
C2_SerialEquivalence ==
    AllSettled => preambleAndBeacons = SequentialState(Len(calls))

\* C2 witness: three calls, a stop() among them, have all settled while the
\* transport operation of an earlier start() is still outstanding, and a
\* beacon is published.
C2_Witness ==
    /\ AllSettled
    /\ Len(calls) = 3
    /\ \E id \in 1..Len(calls) : calls[id].kind = "stop"
    /\ \E id \in 1..Len(calls) : IsStart(id) /\ transport[id] = "pending"
    /\ preambleAndBeacons # NULL

\* C3: a start([]) executed while the beacon state is none makes no call of
\* startUpdateAdvertisingAndListening.
C3_NoRefreshOnNoneToNone ==
    \A id \in BegunStarts :
       (calls[id].arg = EmptyList /\ previousPreambleAndBeacons[id] = NULL)
          => refreshCalls[id] = 0

\* C3 witness: start([]) followed by start([]), both executed.
C3_Witness ==
    \E id \in BegunStarts :
       /\ id > 1
       /\ calls[id - 1] = [kind |-> "start", arg |-> EmptyList]
       /\ calls[id].arg = EmptyList
       /\ refreshCalls[id] = 0

\* C4: a start([]) that withdraws a published beacon set calls
\* startUpdateAdvertisingAndListening exactly once.
C4_OneRefreshOnWithdraw ==
    \A id \in BegunStarts :
       (calls[id].arg = EmptyList /\ previousPreambleAndBeacons[id] # NULL)
          => refreshCalls[id] = 1

\* C4 witness: start([k1]) followed by start([]), both executed.
C4_Witness ==
    \E id \in BegunStarts :
       /\ id > 1
       /\ calls[id - 1] = [kind |-> "start",
                           arg |-> [isArray |-> TRUE, keys |-> <<"k1">>]]
       /\ calls[id].arg = EmptyList
       /\ previousPreambleAndBeacons[id] # NULL
       /\ preambleAndBeacons = NULL
       /\ refreshCalls[id] = 1

\* C5 as stated: start() calls startUpdateAdvertisingAndListening exactly
\* when (old state is nil) XOR (new state is nil).
C5_RefreshIffXor ==
    \A id \in BegunStarts :
       (refreshCalls[id] > 0)
          <=> ((previousPreambleAndBeacons[id] = NULL)
                  # (resultingPreambleAndBeacons[id] = NULL))

\* C5 amended: a start() calls startUpdateAdvertisingAndListening exactly
\* when it passes validation and generation and the old or the new beacon
\* state is non-nil; never on a call from nil to nil.
C5_RefreshIffEitherNonNil ==
    \A id \in BegunStarts :
       refreshCalls[id] =
          IF /\ PassesValidationAndGeneration(calls[id].arg)
             /\ (previousPreambleAndBeacons[id] # NULL
                   \/ resultingPreambleAndBeacons[id] # NULL)
          THEN 1 ELSE 0

\* C5 witness: one start() went from nil to nil without a refresh and another
\* from non-nil to non-nil with one.
C5_Witness ==
    /\ \E id \in BegunStarts :
          /\ previousPreambleAndBeacons[id] = NULL
          /\ resultingPreambleAndBeacons[id] = NULL
          /\ calls[id].arg = EmptyList
          /\ refreshCalls[id] = 0
    /\ \E id \in BegunStarts :
          /\ previousPreambleAndBeacons[id] # NULL
          /\ resultingPreambleAndBeacons[id] # NULL
          /\ refreshCalls[id] = 1

\* C6: a start() that passes validation and generation calls
\* startUpdateAdvertisingAndListening whenever the previous or the new beacon
\* state is non-nil.
C6_RefreshWheneverEitherNonNil ==
    \A id \in BegunStarts :
       (/\ PassesValidationAndGeneration(calls[id].arg)
        /\ (previousPreambleAndBeacons[id] # NULL
              \/ resultingPreambleAndBeacons[id] # NULL))
          => refreshCalls[id] >= 1

\* C6 witness: a start() replaced the beacons of one key set by those of
\* another and made the refresh call.
C6_Witness ==
    \E id \in BegunStarts :
       /\ previousPreambleAndBeacons[id] # NULL
       /\ resultingPreambleAndBeacons[id] # NULL
       /\ previousPreambleAndBeacons[id].keys # resultingPreambleAndBeacons[id].keys
       /\ PassesValidationAndGeneration(calls[id].arg)
       /\ refreshCalls[id] = 1

\* C7: a start() that rejects leaves the published beacon state exactly as it
\* was before the call and makes no refresh call.
C7_RejectedStartChangesNothing ==
    \A id \in BegunStarts :
       PromiseState(id) = "rejected"
          => /\ resultingPreambleAndBeacons[id] = previousPreambleAndBeacons[id]
             /\ refreshCalls[id] = 0
             /\ transport[id] = "idle"

\* C7 witness: with a beacon set published, a start() with a well-formed and
\* a malformed key was the last function to run and rejected; the beacon set
\* is still published.
C7_Witness ==
    \E id \in BegunStarts :
       /\ PromiseState(id) = "rejected"
       /\ calls[id].arg.keys = <<"k1", "empty">>
       /\ previousPreambleAndBeacons[id] # NULL
       /\ id = beginOrder[Len(beginOrder)]
       /\ preambleAndBeacons = previousPreambleAndBeacons[id]

\* C8: if the refresh call a start() made fails, the promise of that start()
\* is rejected with the transport's error.
C8_TransportErrorRejectsStart ==
    \A id \in BegunStarts :
       transport[id] = "failed"
          => /\ PromiseState(id) = "rejected"
             /\ Head(handles[id]) = RejectTransport

\* C9: for every call, its resolve/reject handles are invoked at most once
\* altogether, and exactly once by the time its transport operation is done.
C9_HandlesInvokedOnce ==
    \A id \in 1..Len(calls) :
       /\ Len(handles[id]) <= 1
       /\ (Begun(id) /\ transport[id] # "pending") => Len(handles[id]) = 1

SuccessfulStarts ==
    {id \in 1..Len(calls) : IsStart(id) /\ PromiseState(id) = "resolved"}

LastSuccessfulStart ==
    CHOOSE id \in SuccessfulStarts : \A other \in SuccessfulStarts : other <= id

\* C10: once the handler is registered, it answers 204 with an empty body
\* when no beacon is set, and otherwise it answers with exactly the blob that
\* the last successful start() generated.
C10_GetReturnsLastSuccessfulStart ==
    routerGets > 0 =>
       LET res == GetBeaconNotifications(preambleAndBeacons)
       IN  IF preambleAndBeacons = NULL
           THEN res.status = 204 /\ res.body = NULL
           ELSE /\ SuccessfulStarts # {}
                /\ res.status = 200
                /\ res.body # NULL
                /\ res.body = GeneratePreambleAndBeacons(
                                 calls[LastSuccessfulStart].arg.keys,
                                 LastSuccessfulStart)

\* C10 witness: a GET was answered with the blob of the last successful
\* start(), which replaced the blob of an earlier one and was followed by a
\* start() that rejected.
C10_Witness ==
    /\ lastResponse.status = 200
    /\ preambleAndBeacons # NULL
    /\ lastResponse.body = preambleAndBeacons
    /\ Cardinality(SuccessfulStarts) >= 2
    /\ \E id \in BegunStarts :
          id > LastSuccessfulStart /\ PromiseState(id) = "rejected"

\* C11: the GET handler is registered on the router at most once, and it is
\* registered once the first start() call has been executed.
C11_RegisteredOnceByFirstStart ==
    /\ routerGets <= 1
    /\ BegunStarts # {} => routerGets = 1

BegunStops ==
    {id \in 1..Len(calls) : calls[id].kind = "stop" /\ Begun(id)}

\* C12: every executed stop() sets the beacon state to none and calls
\* stopAdvertisingAndListening exactly once; from then on the registered GET
\* handler answers 204 unless a later start() with a non-empty key list has
\* succeeded.
C12_StopWithdrawsBeacons ==
    \A id \in BegunStops :
       /\ resultingPreambleAndBeacons[id] = NULL
       /\ stopCalls[id] = 1
       /\ refreshCalls[id] = 0
       /\ (routerGets > 0 /\ GetBeaconNotifications(preambleAndBeacons).status # 204)
             => \E later \in BegunStarts :
                   /\ later > id
                   /\ Len(calls[later].arg.keys) > 0
                   /\ PromiseState(later) = "resolved"

\* C12 witness: a stop() whose transport call failed withdrew a published
\* beacon set, and a GET after it settled was answered 204.
C12_Witness ==
    \E id \in BegunStops :
       /\ previousPreambleAndBeacons[id] # NULL
       /\ PromiseState(id) = "rejected"
       /\ id = beginOrder[Len(beginOrder)]
       /\ stopCalls[id] = 1
       /\ preambleAndBeacons = NULL
       /\ lastResponse.status = 204

\* C13: stop() resolves exactly when stopAdvertisingAndListening succeeds and
\* rejects with the transport's error exactly when it fails; after either the
\* queue runs the operation enqueued next.
C13_StopSettlesWithTransport ==
    /\ \A id \in BegunStops :
          /\ transport[id] = "pending" <=> PromiseState(id) = "pending"
          /\ transport[id] = "ok" <=> PromiseState(id) = "resolved"
          /\ transport[id] = "failed" <=> PromiseState(id) = "rejected"
          /\ transport[id] = "failed" => Head(handles[id]) = RejectTransport
    /\ \A id \in BegunStops :
          (queue # <<>> /\ Head(queue) = id + 1 /\ Settled(id))
             => ENABLED (ExecStart \/ ExecStop)

\* C13 witness: a stop() rejected with the transport's error and the
\* operation enqueued after it has begun.
C13_Witness ==
    \E id \in BegunStops :
       /\ transport[id] = "failed"
       /\ PromiseState(id) = "rejected"
       /\ Begun(id + 1)

----------------------------------------------------------------------------
(* QuitSignal, testThaliMobileNative.js lines 938-976 *)

\* Number of calls made on the QuitSignal object in one run.
MaxSignalCalls == 5

\* The fields of the QuitSignal object.
QS == [raised |-> raised, timeOuts |-> timeOuts, cancelCalls |-> cancelCalls]

\* Line 958, this.timeOuts[key] === timeOut: an element of the array is an
\* object, so it is strictly equal only to a reference to that same object.
StrictEquals(struct, value) == value = StructValue(struct.ref)

IsLive(struct) == struct # Hole

\* clearTimeout: an armed timer will not fire; no effect on any other.
ClearTimeout(timerState) ==
    IF timerState = "armed" THEN "cleared" ELSE timerState

\* addCancelCall(cancelCall), lines 944-947; the callback of the n-th
\* successful call is callback n.
AddCancelCallOp(qs) ==
    IF qs.raised
    THEN [qs |-> qs, threw |-> TRUE]
    ELSE [qs |-> [qs EXCEPT !.cancelCalls = Append(@, Len(@) + 1)],
          threw |-> FALSE]

AddTimeoutOpNoAssert(qs, timeOut) ==
    [qs |-> [qs EXCEPT !.timeOuts =
                Append(@, TimeOutStruct(Len(@) + 1, timeOut))],
     threw |-> FALSE]

\* addTimeout(timeOut, successCb), lines 949-952.
AddTimeoutOp(qs, timeOut) ==
    IF qs.raised
    THEN [qs |-> qs, threw |-> TRUE]
    ELSE [qs |-> [qs EXCEPT !.timeOuts =
                     Append(@, TimeOutStruct(Len(@) + 1, timeOut))],
          threw |-> FALSE]

\* removeTimeout(timeOut), lines 954-962: deletes the elements of timeOuts
\* that are strictly equal to the argument.
RemoveTimeoutOp(qs, value) ==
    IF qs.raised
    THEN [qs |-> qs, threw |-> TRUE]
    ELSE [qs |-> [qs EXCEPT !.timeOuts =
                     [k \in DOMAIN qs.timeOuts |->
                        IF IsLive(qs.timeOuts[k])
                              /\ StrictEquals(qs.timeOuts[k], value)
                        THEN Hole
                        ELSE qs.timeOuts[k]]],
          threw |-> FALSE]

\* What one raiseSignal() that finds raised false does (lines 968-975).
Raise(qs) ==
    LET live == SelectSeq(qs.timeOuts, IsLive)
    IN  [qs |-> [qs EXCEPT !.raised = TRUE],
         cleared |-> {live[i].timeOut : i \in DOMAIN live},
         invoked |->
            [i \in DOMAIN live |->
               [kind |-> "successCb", id |-> live[i].successCb,
                args |-> "null, null"]]
            \o [i \in DOMAIN qs.cancelCalls |->
                  [kind |-> "cancelCall", id |-> qs.cancelCalls[i], args |-> ""]]]

RaiseSignalOpNoGuard(qs) == Raise(qs)

RaiseSignalOpToggle(qs) ==
    IF qs.raised
    THEN [qs |-> [qs EXCEPT !.raised = FALSE], cleared |-> {}, invoked |-> <<>>]
    ELSE Raise(qs)

RaiseSignalOpNoClear(qs) ==
    IF qs.raised
    THEN [qs |-> qs, cleared |-> {}, invoked |-> <<>>]
    ELSE [Raise(qs) EXCEPT !.cleared = {}]

\* raiseSignal(), lines 964-976:
\*   cleared  the handles given to clearTimeout
\*   invoked  the callbacks invoked, in order
RaiseSignalOp(qs) ==
    IF qs.raised
    THEN [qs |-> qs, cleared |-> {}, invoked |-> <<>>]
    ELSE Raise(qs)

\* A call on the signal has been made.
SignalCallMade(op, threw) ==
    /\ signalCalls' = signalCalls + 1
    /\ raiseSignalCalls' = raiseSignalCalls + (IF op = "raiseSignal" THEN 1 ELSE 0)
    /\ lastSignalCall' = [op |-> op, threw |-> threw]

AddCancelCall ==
    /\ signalCalls < MaxSignalCalls
    /\ LET r == AddCancelCallOp(QS)
       IN  /\ raised' = r.qs.raised
           /\ timeOuts' = r.qs.timeOuts
           /\ cancelCalls' = r.qs.cancelCalls
           /\ SignalCallMade("addCancelCall", r.threw)
    /\ UNCHANGED <<timers, callbackLog, withdrawn, vars, validationVars, laterVars>>

\* The caller sets a timer (or takes one it has set) and registers it.
AddTimeout ==
    /\ signalCalls < MaxSignalCalls
    /\ \E h \in TimerHandles :
          LET r == AddTimeoutOp(QS, h)
          IN  /\ raised' = r.qs.raised
              /\ timeOuts' = r.qs.timeOuts
              /\ cancelCalls' = r.qs.cancelCalls
              /\ timers' = [timers EXCEPT ![h] =
                              IF @ = "unset" THEN "armed" ELSE @]
              /\ SignalCallMade("addTimeout", r.threw)
    /\ UNCHANGED <<callbackLog, withdrawn, vars, validationVars, laterVars>>

RemoveTimeout ==
    /\ signalCalls < MaxSignalCalls
    /\ \E value \in {HandleValue(h) : h \in TimerHandles}
                      \cup {StructValue(n) : n \in 1..Len(timeOuts)} :
          LET r == RemoveTimeoutOp(QS, value)
          IN  /\ raised' = r.qs.raised
              /\ timeOuts' = r.qs.timeOuts
              /\ cancelCalls' = r.qs.cancelCalls
              /\ withdrawn' =
                    IF r.threw THEN withdrawn
                    ELSE withdrawn \cup
                         {timeOuts[k].ref : k \in
                            {j \in DOMAIN timeOuts :
                               /\ IsLive(timeOuts[j])
                               /\ value = HandleValue(timeOuts[j].timeOut)}}
              /\ SignalCallMade("removeTimeout", r.threw)
    /\ UNCHANGED <<timers, callbackLog, vars, validationVars, laterVars>>

RaiseSignal ==
    /\ signalCalls < MaxSignalCalls
    /\ LET r == RaiseSignalOp(QS)
       IN  /\ raised' = r.qs.raised
           /\ timeOuts' = r.qs.timeOuts
           /\ cancelCalls' = r.qs.cancelCalls
           /\ timers' = [h \in TimerHandles |->
                           IF h \in r.cleared THEN ClearTimeout(timers[h])
                           ELSE timers[h]]
           /\ callbackLog' = callbackLog \o r.invoked
           /\ SignalCallMade("raiseSignal", FALSE)
    /\ UNCHANGED <<withdrawn, vars, validationVars, laterVars>>

\* An armed timer fires: its own callback reports the timeout error.
TimerFire(h) ==
    /\ timers[h] = "armed"
    /\ timers' = [timers EXCEPT ![h] = "fired"]
    /\ UNCHANGED <<raised, timeOuts, cancelCalls, callbackLog, withdrawn,
                   signalCalls, raiseSignalCalls, lastSignalCall, vars,
                   validationVars, laterVars>>

TimerFires == \E h \in TimerHandles : TimerFire(h)

NextQuitSignal ==
    \/ AddCancelCall
    \/ AddTimeout
    \/ RemoveTimeout
    \/ RaiseSignal
    \/ TimerFires

SpecQuitSignal == Init /\ [][NextQuitSignal]_allVars

----------------------------------------------------------------------------
(* Properties of QuitSignal *)

\* How often the signal has invoked a callback.
InvocationCount(kind, id) ==
    Cardinality({i \in DOMAIN callbackLog :
                    callbackLog[i].kind = kind /\ callbackLog[i].id = id})

LiveTimeOuts == {k \in DOMAIN timeOuts : IsLive(timeOuts[k])}

\* C14: once raised is true it stays true, whatever call follows.
C14_RaisedIsMonotonic == [][raised => raised']_quitSignalVars

\* C14 witness: the signal is raised and a removeTimeout was called on it
\* afterwards.
C14_Witness ==
    /\ raised
    /\ lastSignalCall = [op |-> "removeTimeout", threw |-> TRUE]

\* C15: however often raiseSignal() has been called, every registered
\* cancellation callback and every registered timer completion callback has
\* been invoked exactly once, and nothing else has.
C15_RaiseIsIdempotent ==
    raiseSignalCalls >= 1 =>
       /\ \A k \in LiveTimeOuts :
             InvocationCount("successCb", timeOuts[k].successCb) = 1
       /\ \A k \in DOMAIN cancelCalls :
             InvocationCount("cancelCall", cancelCalls[k]) = 1
       /\ Len(callbackLog) = Cardinality(LiveTimeOuts) + Len(cancelCalls)

\* C15 witness: raiseSignal() was called twice on a signal holding a timer
\* and a cancellation callback.
C15_Witness ==
    /\ raiseSignalCalls = 2
    /\ LiveTimeOuts # {}
    /\ cancelCalls # <<>>
    /\ Len(callbackLog) = 2

\* C16: a call of addTimeout or addCancelCall on a raised signal fails and
\* leaves timeOuts and cancelCalls as they were.
C16_NoRegistrationAfterRaise ==
    [][(/\ raised
        /\ signalCalls' = signalCalls + 1
        /\ lastSignalCall'.op \in {"addTimeout", "addCancelCall"})
          => /\ lastSignalCall'.threw
             /\ timeOuts' = timeOuts
             /\ cancelCalls' = cancelCalls]_quitSignalVars

\* C16 witness: addTimeout failed on a raised signal that holds a timer and
\* a cancellation callback.
C16_Witness ==
    /\ raised
    /\ lastSignalCall = [op |-> "addTimeout", threw |-> TRUE]
    /\ LiveTimeOuts # {}
    /\ cancelCalls # <<>>

\* C17: on a raised signal every timer still registered has been cleared (or
\* had fired before), cannot fire any more, and its completion callback has
\* been invoked with (null, null).
C17_RaiseClearsTimers ==
    raised =>
       \A k \in LiveTimeOuts :
          /\ timers[timeOuts[k].timeOut] \in {"cleared", "fired"}
          /\ ~ENABLED TimerFire(timeOuts[k].timeOut)
          /\ \E i \in DOMAIN callbackLog :
                callbackLog[i] = [kind |-> "successCb",
                                  id |-> timeOuts[k].successCb,
                                  args |-> "null, null"]

\* C17 witness: two timers were registered, the signal was raised and both
\* are cleared.
C17_Witness ==
    /\ raised
    /\ \A h \in TimerHandles :
          /\ timers[h] = "cleared"
          /\ \E k \in LiveTimeOuts : timeOuts[k].timeOut = h

\* C18: the completion callback of a timer that was registered and then
\* withdrawn with removeTimeout(handle) is not invoked by raiseSignal().
C18_WithdrawnTimerNotCompleted ==
    \A n \in withdrawn : InvocationCount("successCb", n) = 0

----------------------------------------------------------------------------
(* Round validation, testThaliMobileNative.js lines 1023-1073, 1199-1218 *)

\* peerInTestList(t, uuid), lines 1023-1030.
PeerInTestList(uuid) ==
    \E i \in DOMAIN Participants : Participants[i] = uuid

\* Buffer.compare(a, b): -1, 0 or 1 by the first byte that differs, a proper
\* prefix comparing smaller.
RECURSIVE BufferCompare(_, _)
BufferCompare(a, b) ==
    IF a = <<>> /\ b = <<>> THEN 0
    ELSE IF a = <<>> THEN -1
    ELSE IF b = <<>> THEN 1
    ELSE IF Head(a) < Head(b) THEN -1
    ELSE IF Head(a) > Head(b) THEN 1
    ELSE BufferCompare(Tail(a), Tail(b))

\* roundNumber.toString() for the one-digit round numbers.
NumberToString(n) ==
    <<"0", "1", "2", "3", "4", "5", "6", "7", "8", "9">>[n + 1]

ValidateRequestSelfFirst(round, message) ==
    IF ~PeerInTestList(message.uuid) THEN WRONG_TEST
    ELSE IF message.uuid = LocalUuid THEN WRONG_ME
    ELSE IF BufferCompare(message.bulkData, BulkMessage) # 0 THEN WRONG_SYNTAX
    ELSE IF message.code # NumberToString(round) THEN WRONG_GEN
    ELSE SUCCESS

ValidateRequestAnyRound(round, message) ==
    IF ~PeerInTestList(message.uuid) THEN WRONG_TEST
    ELSE IF BufferCompare(message.bulkData, BulkMessage) # 0 THEN WRONG_SYNTAX
    ELSE IF message.uuid = LocalUuid THEN WRONG_ME
    ELSE SUCCESS

\* validateRequest(t, roundNumber, parsedMessage), lines 1199-1218.
ValidateRequest(round, message) ==
    IF ~PeerInTestList(message.uuid) THEN WRONG_TEST
    ELSE IF BufferCompare(message.bulkData, BulkMessage) # 0 THEN WRONG_SYNTAX
    ELSE IF message.uuid = LocalUuid THEN WRONG_ME
    ELSE IF message.code # NumberToString(round) THEN WRONG_GEN
    ELSE SUCCESS

ValidateServerResponsePayloadFirst(serverResponse) ==
    IF BufferCompare(BulkMessage, serverResponse.bulkData) # 0 THEN FATAL
    ELSE IF ~PeerInTestList(serverResponse.uuid) THEN NON_FATAL
    ELSE CASE serverResponse.code \in {WRONG_ME, WRONG_GEN} -> NON_FATAL
           [] serverResponse.code \in {WRONG_TEST, WRONG_SYNTAX} -> FATAL
           [] serverResponse.code = SUCCESS -> OK
           [] OTHER -> FATAL

\* validateServerResponse(t, serverResponse), lines 1042-1073.
ValidateServerResponse(serverResponse) ==
    IF ~PeerInTestList(serverResponse.uuid) THEN NON_FATAL
    ELSE IF BufferCompare(BulkMessage, serverResponse.bulkData) # 0 THEN FATAL
    ELSE CASE serverResponse.code \in {WRONG_ME, WRONG_GEN} -> NON_FATAL
           [] serverResponse.code \in {WRONG_TEST, WRONG_SYNTAX} -> FATAL
           [] serverResponse.code = SUCCESS -> OK
           [] OTHER -> FATAL

\* A message of the right length has been received and parsed, in round 0 or
\* round 1.
InitValidation ==
    /\ ServerInit
    /\ QuitSignalInit
    /\ LaterIdle
    /\ parsedMessage \in Messages
    /\ roundNumber \in Rounds
    /\ requestResult = ""
    /\ serverResponseResult = ""

\* The server role validates the message as a request.
ValidateRequestCall ==
    /\ requestResult = ""
    /\ requestResult' = ValidateRequest(roundNumber, parsedMessage)
    /\ UNCHANGED <<parsedMessage, roundNumber, serverResponseResult, vars,
                   quitSignalVars, laterVars>>

\* The client role validates the message as a server's response.
ValidateServerResponseCall ==
    /\ serverResponseResult = ""
    /\ serverResponseResult' = ValidateServerResponse(parsedMessage)
    /\ UNCHANGED <<parsedMessage, roundNumber, requestResult, vars,
                   quitSignalVars, laterVars>>

NextValidation ==
    \/ ValidateRequestCall
    \/ ValidateServerResponseCall

SpecValidation == InitValidation /\ [][NextValidation]_allVars

----------------------------------------------------------------------------
(* Properties of the round validation *)

IsParticipant(uuid) == uuid \in {"A", "B", "C"}

IsCanonical(bulkData) == bulkData = BulkMessage

CodeIsRound(code, round) ==
    \/ round = 0 /\ code = "0"
    \/ round = 1 /\ code = "1"

\* C19: validateRequest answers every message, with the precedence
\* WRONG_TEST_SET (uuid not a participant), WRONG_SYNTAX (payload not the
\* canonical one), WRONG_SELF_REFERENCE (uuid is the local one),
\* WRONG_GENERATION (code is not the round number), SUCCESS.
C19_ValidateRequestPrecedence ==
    requestResult # "" =>
       LET m == parsedMessage
       IN  /\ requestResult \in {WRONG_TEST, WRONG_SYNTAX, WRONG_ME, WRONG_GEN, SUCCESS}
           /\ requestResult = WRONG_TEST <=> ~IsParticipant(m.uuid)
           /\ requestResult = WRONG_SYNTAX
                 <=> IsParticipant(m.uuid) /\ ~IsCanonical(m.bulkData)
           /\ requestResult = WRONG_ME
                 <=> /\ IsParticipant(m.uuid) /\ IsCanonical(m.bulkData)
                     /\ m.uuid = LocalUuid
           /\ requestResult = WRONG_GEN
                 <=> /\ IsParticipant(m.uuid) /\ IsCanonical(m.bulkData)
                     /\ m.uuid # LocalUuid
                     /\ ~CodeIsRound(m.code, roundNumber)
           /\ requestResult = SUCCESS
                 <=> /\ IsParticipant(m.uuid) /\ IsCanonical(m.bulkData)
                     /\ m.uuid # LocalUuid
                     /\ CodeIsRound(m.code, roundNumber)

\* C19 witness: a message with the local uuid, a wrong payload and a wrong
\* round code was answered WRONG_SYNTAX.
C19_Witness ==
    /\ requestResult = WRONG_SYNTAX
    /\ parsedMessage.uuid = LocalUuid
    /\ ~IsCanonical(parsedMessage.bulkData)
    /\ ~CodeIsRound(parsedMessage.code, roundNumber)

\* C20: validateServerResponse answers every response: non-fatal when the
\* responder is not a participant, whatever the payload; else fatal on a
\* payload mismatch; else non-fatal for WRONG_SELF_REFERENCE and
\* WRONG_GENERATION, fatal for WRONG_TEST_SET and WRONG_SYNTAX, ok for
\* SUCCESS and fatal for any other code.
C20_ValidateServerResponseTotal ==
    serverResponseResult # "" =>
       LET m == parsedMessage
       IN  /\ serverResponseResult \in {FATAL, NON_FATAL, OK}
           /\ ~IsParticipant(m.uuid) => serverResponseResult = NON_FATAL
           /\ (IsParticipant(m.uuid) /\ ~IsCanonical(m.bulkData))
                 => serverResponseResult = FATAL
           /\ (IsParticipant(m.uuid) /\ IsCanonical(m.bulkData)) =>
                 /\ m.code \in {"3", "0"} => serverResponseResult = NON_FATAL
                 /\ m.code \in {"1", "4"} => serverResponseResult = FATAL
                 /\ m.code = "2" => serverResponseResult = OK
                 /\ m.code \notin {"0", "1", "2", "3", "4"}
                       => serverResponseResult = FATAL

\* C20 witness: a response from a stranger with a wrong payload was
\* classified non-fatal.
C20_Witness ==
    /\ serverResponseResult = NON_FATAL
    /\ ~IsParticipant(parsedMessage.uuid)
    /\ ~IsCanonical(parsedMessage.bulkData)

----------------------------------------------------------------------------
(* The two rounds, testThaliMobileNative.js lines 1075-1345 *)

\* Listener calls (batches of peers) in one run.
MaxBatches == 2

\* The payloads tried in the rounds: the right one and a corrupted one.
RoundBulkDatas == {BulkMessage, [BulkMessage EXCEPT ![1] = 0]}

\* The requests a peer may send: its uuid, the round it is in, a payload.
Requests == [uuid : Uuids, code : {"0", "1"}, bulkData : RoundBulkDatas]

\* The responses a peer may send: its uuid, an outcome, a payload.
Responses ==
    [uuid : Uuids, code : {SUCCESS, WRONG_GEN, WRONG_SYNTAX},
     bulkData : RoundBulkDatas]

\* Inbound connections that deliver a whole message in one run.
MaxSockets == 2

\* resolve() or reject() on a promise: the first one settles it.
Settle(state, outcome) == IF state = "pending" THEN outcome ELSE state

VerifyPeersOneMissing(hashTable) ==
    LET notFoundParticipants ==
           SelectSeq(Participants, LAMBDA uuid : uuid \notin hashTable)
    IN  Len(notFoundParticipants) = 1

\* verifyPeers(t, hashTable), lines 1125-1134; hashTable is the set of its
\* keys, all of them set to true.
VerifyPeers(hashTable) ==
    LET notFoundParticipants ==
           SelectSeq(Participants, LAMBDA uuid : uuid \notin hashTable)
    IN  /\ Len(notFoundParticipants) = 1
        /\ notFoundParticipants[1] = LocalUuid

\* createMessage(code), lines 1011-1016.
CreateMessage(code) ==
    [uuid |-> LocalUuid, code |-> code, bulkData |-> BulkMessage]

ConnectionListenerOpCountAll(round, message) ==
    LET validationResult == ValidateRequest(round, message)
    IN  [validationResult |-> validationResult,
         written |-> CreateMessage(validationResult),
         onEnd |-> TRUE,
         rejects |-> FALSE]

\* connectionListener once the message has arrived, lines 1230-1258:
\*   written  the message given to socket.write
\*   onEnd    whether a handler for the socket's 'end' is registered
\*   rejects  whether the default branch rejects the role's promise
ConnectionListenerOp(round, message) ==
    LET validationResult == ValidateRequest(round, message)
    IN  [validationResult |-> validationResult,
         written |-> CreateMessage(validationResult),
         onEnd |-> validationResult = SUCCESS,
         rejects |-> validationResult \notin
                        {WRONG_SYNTAX, WRONG_TEST, WRONG_ME, WRONG_GEN, SUCCESS}]

\* The socket's 'end' handler, lines 1245-1251.
EndHandlerOp(validPeers, uuid) ==
    LET pushed == Append(validPeers, uuid)
    IN  [validPeers |-> pushed,
         resolves |-> Len(pushed) = Len(Participants) - 1]

RoundJoinEither(client, server) ==
    IF "resolved" \in {client, server} THEN "resolved"
    ELSE IF "rejected" \in {client, server} THEN "rejected"
    ELSE "pending"

\* Promise.all([clientRound(...), serverRound(...)]), lines 1319-1322 and
\* 1327-1330: rejected once either is rejected, resolved once both are.
RoundJoin(client, server) ==
    IF "rejected" \in {client, server} THEN "rejected"
    ELSE IF client = "resolved" /\ server = "resolved" THEN "resolved"
    ELSE "pending"

SignalsAfterRaiseNone(ids) == signals

\* raiseSignal() on the QuitSignals ids: the signals afterwards, and the
\* rounds whose server role's cancel call (line 1224) was invoked.
SignalsAfterRaise(ids) ==
    [i \in DOMAIN signals |->
       IF i \in ids THEN RaiseSignalOp(signals[i]).qs ELSE signals[i]]

CancelledRounds(ids) ==
    {r \in Rounds :
       /\ serverSignalOf[r] \in ids
       /\ \E k \in DOMAIN RaiseSignalOp(signals[serverSignalOf[r]]).invoked :
             RaiseSignalOp(signals[serverSignalOf[r]]).invoked[k].kind
                = "cancelCall"}

ServerPromiseAfterRaise(ids) ==
    [r \in Rounds |->
       IF r \in CancelledRounds(ids)
       THEN Settle(serverPromise[r], "rejected")
       ELSE serverPromise[r]]

\* The peer promise a has settled: Promise.all of its batch hears of it.
AttemptSettled(a, fatal) ==
    /\ attempts' = attempts \ {a}
    /\ batches' = [batches EXCEPT ![a.batch].waiting = @ - 1,
                                  ![a.batch].rejected = @ \/ fatal]

\* An error, with the fatal flag it carries.
ErrorWith(fatal) == [fatal |-> fatal]

ConnectCatchKeeps(err) == err

\* The catch on connectToPeer, lines 1161-1164.
ConnectCatch(err) == [err EXCEPT !.fatal = FALSE]

\* The catch on connectToListenerSendMessageGetResponseLength, lines
\* 1114-1119.
ExchangeCatch(err) == [err EXCEPT !.fatal = FALSE]

\* The last catch of the peer promise, lines 1173-1181: whether the peer
\* promise rejects, and whether the peer is deleted from
\* peersWeAreOrHaveResolved.
PeerCatch(err) == [rejects |-> err.fatal, deletes |-> ~err.fatal]

SucceededAfterOnly(hashTable, uuid) == {uuid}

\* peersWeSucceededWith[parsedMessage.uuid] = true, line 1100.
SucceededAfter(hashTable, uuid) == hashTable \cup {uuid}

RecoveredKeeps(a) ==
    /\ UNCHANGED peersWeAreOrHaveResolved
    /\ AttemptSettled(a, FALSE)

\* The non-fatal branch of the last catch, lines 1177-1180.
Recovered(a) ==
    /\ peersWeAreOrHaveResolved' =
          [peersWeAreOrHaveResolved EXCEPT ![batches[a.batch].round] =
              @ \ {a.peer}]
    /\ AttemptSettled(a, FALSE)

\* The peer promise a reaches its last catch with err, lines 1173-1181.
PeerPromiseFails(a, err) ==
    IF PeerCatch(err).rejects
    THEN /\ AttemptSettled(a, TRUE)
         /\ UNCHANGED peersWeAreOrHaveResolved
    ELSE Recovered(a)

PeersToResolveAll(available, resolving) == available

\* The peers of a listener call for which a connection attempt is started,
\* lines 1146-1158: the available ones not in peersWeAreOrHaveResolved.
PeersToResolve(available, resolving) == available \ resolving

\* boundListener.listener(peers), lines 1140-1183: the transport reports
\* the peers in reported, those in available with peerAvailable true.
ListenerCallOf(reports) ==
    /\ boundListener # NoListener
    /\ Len(batches) < MaxBatches
    /\ \E reported \in reports :
       \E available \in SUBSET reported :
          LET r == boundListener
              started == PeersToResolve(available,
                                        peersWeAreOrHaveResolved[r])
          IN  IF VerifyPeers(peersWeSucceededWith[r])
              THEN UNCHANGED <<peersWeAreOrHaveResolved, attempts, batches>>
              ELSE /\ peersWeAreOrHaveResolved' =
                         [peersWeAreOrHaveResolved EXCEPT ![r] = @ \cup started]
                   /\ attempts' = attempts \cup
                         {[batch |-> Len(batches) + 1, peer |-> p,
                           stage |-> "connecting"] : p \in started}
                   /\ batches' = Append(batches,
                         [round |-> r, waiting |-> Cardinality(started),
                          rejected |-> FALSE, state |-> "pending"])
    /\ UNCHANGED <<testStatus, testFailed, clientQuitSignal, serverQuitSignal,
                   signals, clientPromise, serverPromise, roundPromise,
                   clientSignalOf, serverSignalOf, boundListener, muxListeners,
                   nativeCall, peersWeSucceededWith, validPeersForThisRound,
                   sockets, nonRoundVars>>

\* connectToPeer settles, lines 1161-1172.
ConnectSettles ==
    /\ \E a \in attempts : \E connected, carried \in BOOLEAN :
          LET r == batches[a.batch].round
          IN  /\ a.stage = "connecting"
              /\ IF ~connected
                 THEN PeerPromiseFails(a, ConnectCatch(ErrorWith(carried)))
                 ELSE IF signals[clientSignalOf[r]].raised
                 THEN /\ AttemptSettled(a, FALSE)
                      /\ UNCHANGED peersWeAreOrHaveResolved
                 ELSE /\ attempts' = (attempts \ {a}) \cup
                            {[a EXCEPT !.stage = "exchanging"]}
                      /\ UNCHANGED <<batches, peersWeAreOrHaveResolved>>
    /\ UNCHANGED <<testStatus, testFailed, clientQuitSignal, serverQuitSignal,
                   signals, clientPromise, serverPromise, roundPromise,
                   clientSignalOf, serverSignalOf, boundListener, muxListeners,
                   nativeCall, peersWeSucceededWith, validPeersForThisRound,
                   sockets, nonRoundVars>>

ListenerCall == ListenerCallOf(SUBSET PeerIdentifiers)

\* clientSuccessConnect settles, lines 1085-1120, and with it the peer
\* promise, lines 1173-1181: the exchange fails, or a response arrives.
ExchangeSettlesOf(responses) ==
    /\ \E a \in attempts :
          LET r == batches[a.batch].round
          IN  /\ a.stage = "exchanging"
              /\ \/ \E carried \in BOOLEAN :
                       /\ PeerPromiseFails(a,
                                           ExchangeCatch(ErrorWith(carried)))
                       /\ UNCHANGED peersWeSucceededWith
                 \/ \E serverResponse \in responses :
                       LET validation == ValidateServerResponse(serverResponse)
                       IN  IF validation = NON_FATAL
                           THEN /\ PeerPromiseFails(a, ErrorWith(FALSE))
                                /\ UNCHANGED peersWeSucceededWith
                           ELSE IF validation = OK
                           THEN /\ peersWeSucceededWith' =
                                      [peersWeSucceededWith EXCEPT ![r] =
                                          SucceededAfter(@,
                                                         serverResponse.uuid)]
                                /\ AttemptSettled(a, FALSE)
                                /\ UNCHANGED peersWeAreOrHaveResolved
                           ELSE /\ PeerPromiseFails(a, ErrorWith(TRUE))
                                /\ UNCHANGED peersWeSucceededWith
    /\ UNCHANGED <<testStatus, testFailed, clientQuitSignal, serverQuitSignal,
                   signals, clientPromise, serverPromise, roundPromise,
                   clientSignalOf, serverSignalOf, boundListener, muxListeners,
                   nativeCall, validPeersForThisRound, sockets, nonRoundVars>>

ExchangeSettles == ExchangeSettlesOf(Responses)

\* Promise.all(peerPromises) resolved, lines 1185-1190.
BatchThen ==
    /\ \E k \in DOMAIN batches :
          LET r == batches[k].round
          IN  /\ batches[k].state = "pending"
              /\ batches[k].waiting = 0
              /\ ~batches[k].rejected
              /\ batches' = [batches EXCEPT ![k].state = "done"]
              /\ IF VerifyPeers(peersWeSucceededWith[r])
                 THEN /\ signals' = SignalsAfterRaise({clientSignalOf[r]})
                      /\ serverPromise' =
                            ServerPromiseAfterRaise({clientSignalOf[r]})
                      /\ clientPromise' =
                            [clientPromise EXCEPT ![r] = Settle(@, "resolved")]
                 ELSE UNCHANGED <<signals, serverPromise, clientPromise>>
    /\ UNCHANGED <<testStatus, testFailed, clientQuitSignal, serverQuitSignal,
                   roundPromise, clientSignalOf, serverSignalOf, boundListener,
                   muxListeners, nativeCall, peersWeAreOrHaveResolved,
                   peersWeSucceededWith, attempts, validPeersForThisRound,
                   sockets, nonRoundVars>>

\* Promise.all(peerPromises) rejected, lines 1191-1194.
BatchCatch ==
    /\ \E k \in DOMAIN batches :
          LET r == batches[k].round
          IN  /\ batches[k].state = "pending"
              /\ batches[k].rejected
              /\ batches' = [batches EXCEPT ![k].state = "done"]
              /\ signals' = SignalsAfterRaise({clientSignalOf[r]})
              /\ serverPromise' = ServerPromiseAfterRaise({clientSignalOf[r]})
              /\ clientPromise' =
                    [clientPromise EXCEPT ![r] = Settle(@, "rejected")]
    /\ UNCHANGED <<testStatus, testFailed, clientQuitSignal, serverQuitSignal,
                   roundPromise, clientSignalOf, serverSignalOf, boundListener,
                   muxListeners, nativeCall, peersWeAreOrHaveResolved,
                   peersWeSucceededWith, attempts, validPeersForThisRound,
                   sockets, nonRoundVars>>

\* A connection to pretendLocalMux delivers a whole message: the
\* connectionListener on it runs up to the end of its then callback, lines
\* 1226-1258. (A connection that dies before that is only logged, line 1261.)
ConnectionOf(requests) ==
    /\ Len(sockets) < MaxSockets
    /\ \E r \in muxListeners : \E message \in requests :
          LET op == ConnectionListenerOp(r, message)
          IN  /\ sockets' = Append(sockets,
                    [round |-> r, uuid |-> message.uuid,
                     request |-> message,
                     validationResult |-> op.validationResult,
                     written |-> op.written, writeEnded |-> FALSE,
                     onEnd |-> op.onEnd, peerEnded |-> FALSE])
              /\ serverPromise' =
                    IF op.rejects
                    THEN [serverPromise EXCEPT ![r] = Settle(@, "rejected")]
                    ELSE serverPromise
    /\ UNCHANGED <<testStatus, testFailed, clientQuitSignal, serverQuitSignal,
                   signals, clientPromise, roundPromise, clientSignalOf,
                   serverSignalOf, boundListener, muxListeners, nativeCall,
                   peersWeAreOrHaveResolved, peersWeSucceededWith, batches,
                   attempts, validPeersForThisRound, nonRoundVars>>

Connection == ConnectionOf(Requests)

\* The callback of socket.write, lines 1233-1236: socket.end().
WriteCallback ==
    /\ \E i \in DOMAIN sockets :
          /\ ~sockets[i].writeEnded
          /\ sockets' = [sockets EXCEPT ![i].writeEnded = TRUE]
    /\ UNCHANGED <<testStatus, testFailed, clientQuitSignal, serverQuitSignal,
                   signals, clientPromise, serverPromise, roundPromise,
                   clientSignalOf, serverSignalOf, boundListener, muxListeners,
                   nativeCall, peersWeAreOrHaveResolved, peersWeSucceededWith,
                   batches, attempts, validPeersForThisRound, nonRoundVars>>

\* The peer closes its side of the connection: the socket emits 'end'.
PeerEnd ==
    /\ \E i \in DOMAIN sockets :
          LET r == sockets[i].round
              op == EndHandlerOp(validPeersForThisRound[r], sockets[i].uuid)
          IN  /\ ~sockets[i].peerEnded
              /\ sockets' = [sockets EXCEPT ![i].peerEnded = TRUE]
              /\ IF sockets[i].onEnd
                 THEN /\ validPeersForThisRound' =
                            [validPeersForThisRound EXCEPT ![r] = op.validPeers]
                      /\ serverPromise' =
                            IF op.resolves
                            THEN [serverPromise EXCEPT ![r] =
                                     Settle(@, "resolved")]
                            ELSE serverPromise
                 ELSE UNCHANGED <<validPeersForThisRound, serverPromise>>
    /\ UNCHANGED <<testStatus, testFailed, clientQuitSignal, serverQuitSignal,
                   signals, clientPromise, roundPromise, clientSignalOf,
                   serverSignalOf, boundListener, muxListeners, nativeCall,
                   peersWeAreOrHaveResolved, peersWeSucceededWith, batches,
                   attempts, nonRoundVars>>

\* Promise.all of a round settles.
RoundSettles ==
    /\ \E r \in Rounds :
          /\ roundPromise[r] = "pending"
          /\ RoundJoin(clientPromise[r], serverPromise[r]) # "pending"
          /\ roundPromise' = [roundPromise EXCEPT ![r] =
                                RoundJoin(clientPromise[r], serverPromise[r])]
    /\ UNCHANGED <<testStatus, testFailed, clientQuitSignal, serverQuitSignal,
                   signals, clientPromise, serverPromise, clientSignalOf,
                   serverSignalOf, boundListener, muxListeners, nativeCall,
                   peersWeAreOrHaveResolved, peersWeSucceededWith, batches,
                   attempts, validPeersForThisRound, sockets, nonRoundVars>>

\* The then callback of round 0, lines 1323-1331, with the synchronous part
\* of clientRound(t, 1, ...) and serverRound(t, 1, ...).
StartRoundOne ==
    /\ roundPromise[0] = "resolved"
    /\ roundPromise[1] = "none"
    /\ LET client == Len(signals) + 1
           server == Len(signals) + 2
       IN  /\ signals' = signals \o
                 <<NewQuitSignal, AddCancelCallOp(NewQuitSignal).qs>>
           /\ clientQuitSignal' = client
           /\ serverQuitSignal' = server
           /\ clientSignalOf' = [clientSignalOf EXCEPT ![1] = client]
           /\ serverSignalOf' = [serverSignalOf EXCEPT ![1] = server]
    /\ clientPromise' = [clientPromise EXCEPT ![1] = "pending"]
    /\ serverPromise' = [serverPromise EXCEPT ![1] = "pending"]
    /\ roundPromise' = [roundPromise EXCEPT ![1] = "pending"]
    /\ boundListener' = 1
    /\ nativeCall' = "pending"
    /\ UNCHANGED <<testStatus, testFailed, muxListeners,
                   peersWeAreOrHaveResolved, peersWeSucceededWith, batches,
                   attempts, validPeersForThisRound, sockets, nonRoundVars>>

\* The callback of round 1's startUpdateAdvertisingAndListening, lines
\* 1269-1276.
NativeCallback ==
    /\ nativeCall = "pending"
    /\ nativeCall' = "done"
    /\ \E err \in BOOLEAN :
          /\ testFailed' = (testFailed \/ err)
          /\ serverPromise' =
                IF err
                THEN [serverPromise EXCEPT ![1] = Settle(@, "rejected")]
                ELSE serverPromise
    /\ muxListeners' = {1}
    /\ UNCHANGED <<testStatus, clientQuitSignal, serverQuitSignal, signals,
                   clientPromise, roundPromise, clientSignalOf, serverSignalOf,
                   boundListener, peersWeAreOrHaveResolved,
                   peersWeSucceededWith, batches, attempts,
                   validPeersForThisRound, sockets, nonRoundVars>>

\* The timer of lines 1312-1317 fires.
TestTimeout ==
    /\ testStatus = "running"
    /\ signals' = SignalsAfterRaise({clientQuitSignal, serverQuitSignal})
    /\ serverPromise' =
          ServerPromiseAfterRaise({clientQuitSignal, serverQuitSignal})
    /\ testFailed' = TRUE
    /\ testStatus' = "timed out"
    /\ UNCHANGED <<clientQuitSignal, serverQuitSignal, clientPromise,
                   roundPromise, clientSignalOf, serverSignalOf, boundListener,
                   muxListeners, nativeCall, peersWeAreOrHaveResolved,
                   peersWeSucceededWith, batches, attempts,
                   validPeersForThisRound, sockets, nonRoundVars>>

\* The end of the promise chain, lines 1332-1338.
TestFinish ==
    /\ testStatus # "finished"
    /\ \/ roundPromise[0] = "rejected"
       \/ roundPromise[1] \in {"resolved", "rejected"}
    /\ testFailed' = (testFailed \/ "rejected" \in {roundPromise[0], roundPromise[1]})
    /\ testStatus' = "finished"
    /\ UNCHANGED <<clientQuitSignal, serverQuitSignal, signals, clientPromise,
                   serverPromise, roundPromise, clientSignalOf, serverSignalOf,
                   boundListener, muxListeners, nativeCall,
                   peersWeAreOrHaveResolved, peersWeSucceededWith, batches,
                   attempts, validPeersForThisRound, sockets, nonRoundVars>>

\* The client role of round 0 with every input.
NextClientRound ==
    \/ ListenerCall
    \/ ConnectSettles
    \/ ExchangeSettles
    \/ BatchThen
    \/ BatchCatch
    \/ TestTimeout

SpecClientRound == Init /\ [][NextClientRound]_allVars

\* The server role of round 0 with every input.
NextServerRound ==
    \/ Connection
    \/ WriteCallback
    \/ PeerEnd
    \/ TestTimeout

SpecServerRound == Init /\ [][NextServerRound]_allVars

\* The requests and responses of the other participants when they are in
\* the round of the given code and nothing is corrupted.
ParticipantRequests ==
    [uuid : OtherParticipants, code : {"0", "1"}, bulkData : {BulkMessage}]

ParticipantResponses ==
    [uuid : OtherParticipants, code : {SUCCESS, WRONG_GEN, WRONG_SYNTAX},
     bulkData : {BulkMessage}]

\* The transport reports both remote peers at once.
ParticipantsReported == ListenerCallOf({ParticipantIdentifiers})

ParticipantResponds == ExchangeSettlesOf(ParticipantResponses)

ParticipantConnects == ConnectionOf(ParticipantRequests)

\* The whole test, both roles and both rounds, among the participants.
NextTest ==
    \/ ParticipantsReported
    \/ ConnectSettles
    \/ ParticipantResponds
    \/ BatchThen
    \/ BatchCatch
    \/ ParticipantConnects
    \/ WriteCallback
    \/ PeerEnd
    \/ RoundSettles
    \/ StartRoundOne
    \/ NativeCallback
    \/ TestTimeout
    \/ TestFinish

SpecTest == Init /\ [][NextTest]_allVars

----------------------------------------------------------------------------
(* Properties of the rounds *)

\* The sockets on which the listener of round r answered SUCCESS and has
\* then seen the peer's 'end'.
ValidatedSockets(r) ==
    {i \in DOMAIN sockets :
       /\ sockets[i].round = r
       /\ sockets[i].validationResult = SUCCESS
       /\ sockets[i].peerEnded}

\* C21: for every inbound message the server role writes back a response
\* with its own uuid and the outcome code, and then closes its write side; a
\* peer is counted as validated for the round only for an outcome of SUCCESS
\* and only once the peer's 'end' has been seen on that connection.
C21_ServerRespondsThenCounts ==
    /\ \A i \in DOMAIN sockets :
          /\ sockets[i].written.uuid = LocalUuid
          /\ sockets[i].written.code = sockets[i].validationResult
          /\ sockets[i].validationResult \in
                {WRONG_GEN, WRONG_TEST, SUCCESS, WRONG_ME, WRONG_SYNTAX}
          /\ ~sockets[i].writeEnded => ENABLED WriteCallback
    /\ \A r \in Rounds :
          /\ Len(validPeersForThisRound[r]) = Cardinality(ValidatedSockets(r))
          /\ \A k \in DOMAIN validPeersForThisRound[r] :
                \E i \in ValidatedSockets(r) :
                   sockets[i].uuid = validPeersForThisRound[r][k]

\* C21 witness: one connection was answered SUCCESS, closed by both sides
\* and counted; another was answered with an error, closed by the peer and
\* not counted.
C21_Witness ==
    \E i, j \in DOMAIN sockets :
       /\ sockets[i].validationResult = SUCCESS
       /\ sockets[i].writeEnded /\ sockets[i].peerEnded
       /\ validPeersForThisRound[0] = <<sockets[i].uuid>>
       /\ sockets[j].validationResult = WRONG_GEN
       /\ sockets[j].peerEnded

\* C22: the client role of a round resolves only in a state where the
\* succeeded-set holds every participant but the local one and does not hold
\* the local one.
C22_ClientResolvesOnlyWhenComplete ==
    [][\A r \in Rounds :
          (clientPromise[r] # "resolved" /\ clientPromise'[r] = "resolved")
             => /\ OtherParticipants \subseteq peersWeSucceededWith'[r]
                /\ LocalUuid \notin peersWeSucceededWith'[r]]_roundVars

\* C22 witness: the client role of round 0 resolved with both other
\* participants in its succeeded-set, on the listener's second call.
C22_Witness ==
    /\ clientPromise[0] = "resolved"
    /\ peersWeSucceededWith[0] = OtherParticipants
    /\ Len(batches) = 2
    /\ batches[2].round = 0

\* C23: the server role of a round resolves only when it has validated
\* (SUCCESS and the peer's 'end' seen) a message from each participant other
\* than the local one, in that round.
C23_ServerResolvesOnlyWhenAllValidated ==
    [][\A r \in Rounds :
          (serverPromise[r] # "resolved" /\ serverPromise'[r] = "resolved")
             => \A uuid \in OtherParticipants :
                   \E i \in DOMAIN sockets' :
                      /\ sockets'[i].round = r
                      /\ sockets'[i].uuid = uuid
                      /\ sockets'[i].validationResult = SUCCESS
                      /\ sockets'[i].peerEnded]_roundVars

\* C24: a round resolves only once both its client role and its server role
\* have resolved, and rejects if either rejects; the roles of round 1 are
\* started only after round 0 has resolved, each with a QuitSignal made for
\* it, not yet raised.
C24_RoundJoinsBothRoles ==
    /\ [](\A r \in Rounds :
            /\ roundPromise[r] = "resolved"
                  => /\ clientPromise[r] = "resolved"
                     /\ serverPromise[r] = "resolved"
            /\ ("rejected" \in {clientPromise[r], serverPromise[r]}
                   /\ roundPromise[r] = "pending")
                  => ENABLED (RoundSettles /\ roundPromise'[r] = "rejected")
            /\ roundPromise[r] = "rejected"
                  => "rejected" \in {clientPromise[r], serverPromise[r]})
    /\ []((clientPromise[1] # "none" \/ serverPromise[1] # "none")
             => roundPromise[0] = "resolved")
    /\ [][(clientPromise[1] = "none" /\ clientPromise'[1] # "none")
             => /\ serverPromise[1] = "none" /\ serverPromise'[1] # "none"
                /\ clientSignalOf'[1] \notin DOMAIN signals
                /\ serverSignalOf'[1] \notin DOMAIN signals
                /\ clientSignalOf'[1] # serverSignalOf'[1]
                /\ ~signals'[clientSignalOf'[1]].raised
                /\ ~signals'[serverSignalOf'[1]].raised]_roundVars

\* C24 witness: round 0 resolved with both roles resolved, and round 1 has
\* started with the third and fourth QuitSignal.
C24_Witness ==
    /\ roundPromise[0] = "resolved"
    /\ clientPromise[0] = "resolved" /\ serverPromise[0] = "resolved"
    /\ clientPromise[1] = "pending" /\ serverPromise[1] = "pending"
    /\ clientSignalOf[1] = 3 /\ serverSignalOf[1] = 4
    /\ nativeCall = "done"

----------------------------------------------------------------------------
(* Round 0 on the three participants, lines 1075-1279 run by each of them *)

\* Connections a client gives up (a timeout of the exchange, line 1086, or
\* an error of the connection) in one run.
MaxFailures == 1

\* verifyPeers on the participant self (tape.uuid is self).
VerifyPeersAt(self, hashTable) ==
    LET notFoundParticipants ==
           SelectSeq(Participants, LAMBDA uuid : uuid \notin hashTable)
    IN  /\ Len(notFoundParticipants) = 1
        /\ notFoundParticipants[1] = self

\* validateRequest on the participant self.
ValidateRequestAt(self, round, message) ==
    IF ~PeerInTestList(message.uuid) THEN WRONG_TEST
    ELSE IF BufferCompare(message.bulkData, BulkMessage) # 0 THEN WRONG_SYNTAX
    ELSE IF message.uuid = self THEN WRONG_ME
    ELSE IF message.code # NumberToString(round) THEN WRONG_GEN
    ELSE SUCCESS

\* createMessage on the participant self.
CreateMessageAt(self, code) ==
    [uuid |-> self, code |-> code, bulkData |-> BulkMessage]

\* The round of the connectionListener on a participant's pretendLocalMux:
\* round 1's replaces round 0's in the callback of lines 1269-1276.
ListenerRoundOf(q) == IF stageOf[q] = "round 1" THEN 1 ELSE 0

\* The pairs (client, server) of different participants.
Pairs == {pq \in Peers \X Peers : pq[1] # pq[2]}

Exchange(p, q, result) == [from |-> p, to |-> q, result |-> result]

\* The 'end' of a connection of p on q's socket, lines 1245-1251, which has
\* a handler if q answered SUCCESS.
ServerSeesEnd(p, q, result) ==
    IF result = SUCCESS
    THEN LET op == EndHandlerOp(validPeersOf[q], p)
         IN  /\ validPeersOf' = [validPeersOf EXCEPT ![q] = op.validPeers]
             /\ serverResolvedOf' =
                   [serverResolvedOf EXCEPT ![q] = @ \/ op.resolves]
    ELSE UNCHANGED <<validPeersOf, serverResolvedOf>>

\* The transport tells p that q is available, p's round 0 listener (lines
\* 1140-1183) connects to it and sends its message, and q's
\* connectionListener (lines 1226-1258) answers it.
PeerAvailable(p, q) ==
    /\ stageOf[p] = "round 0"
    /\ ~VerifyPeersAt(p, succeededWithOf[p])
    /\ q \notin resolvingOf[p]
    /\ resolvingOf' = [resolvingOf EXCEPT ![p] = @ \cup {q}]
    /\ LET result == ValidateRequestAt(q, ListenerRoundOf(q),
                                       CreateMessageAt(p, NumberToString(0)))
       IN  exchanges' = exchanges \cup {Exchange(p, q, result)}
    /\ UNCHANGED <<stageOf, succeededWithOf, validPeersOf, clientResolvedOf,
                   serverResolvedOf, failures, nonEndToEndVars>>

\* p has the response of q, lines 1087-1113, and ends or destroys the
\* connection, which q's socket sees; the batch of this one peer settles,
\* lines 1173-1190.
ClientReads(p, q) ==
    /\ \E e \in exchanges :
          /\ e.from = p /\ e.to = q
          /\ exchanges' = exchanges \ {e}
          /\ ServerSeesEnd(p, q, e.result)
          /\ LET validation ==
                    ValidateServerResponse(CreateMessageAt(q, e.result))
             IN  IF validation = OK
                 THEN /\ succeededWithOf' =
                            [succeededWithOf EXCEPT ![p] = @ \cup {q}]
                      /\ clientResolvedOf' =
                            [clientResolvedOf EXCEPT ![p] =
                                @ \/ VerifyPeersAt(p, succeededWithOf[p] \cup {q})]
                      /\ UNCHANGED resolvingOf
                 ELSE /\ validation = NON_FATAL
                      /\ resolvingOf' = [resolvingOf EXCEPT ![p] = @ \ {q}]
                      /\ UNCHANGED <<succeededWithOf, clientResolvedOf>>
    /\ UNCHANGED <<stageOf, failures, nonEndToEndVars>>

\* p gives the connection up before it has the response (the timeout of
\* line 1086), lines 1114-1120 and 1173-1181, and destroys it, which q's
\* socket sees.
ClientGivesUp(p, q) ==
    /\ failures < MaxFailures
    /\ failures' = failures + 1
    /\ \E e \in exchanges :
          /\ e.from = p /\ e.to = q
          /\ exchanges' = exchanges \ {e}
          /\ ServerSeesEnd(p, q, e.result)
          /\ resolvingOf' = [resolvingOf EXCEPT ![p] = @ \ {q}]
    /\ UNCHANGED <<stageOf, succeededWithOf, clientResolvedOf,
                   nonEndToEndVars>>

\* Round 0 of p resolves and its then callback starts round 1, lines
\* 1319-1331.
RoundResolves(p) ==
    /\ stageOf[p] = "round 0"
    /\ RoundJoin(IF clientResolvedOf[p] THEN "resolved" ELSE "pending",
                 IF serverResolvedOf[p] THEN "resolved" ELSE "pending")
          = "resolved"
    /\ stageOf' = [stageOf EXCEPT ![p] = "round 1 starting"]
    /\ UNCHANGED <<succeededWithOf, resolvingOf, validPeersOf, clientResolvedOf,
                   serverResolvedOf, exchanges, failures, nonEndToEndVars>>

\* The callback of p's startUpdateAdvertisingAndListening, lines 1269-1276.
ListenerReplaced(p) ==
    /\ stageOf[p] = "round 1 starting"
    /\ stageOf' = [stageOf EXCEPT ![p] = "round 1"]
    /\ UNCHANGED <<succeededWithOf, resolvingOf, validPeersOf, clientResolvedOf,
                   serverResolvedOf, exchanges, failures, nonEndToEndVars>>

PeersAvailable == \E pq \in Pairs : PeerAvailable(pq[1], pq[2])
ClientsRead == \E pq \in Pairs : ClientReads(pq[1], pq[2])
ClientsGiveUp == \E pq \in Pairs : ClientGivesUp(pq[1], pq[2])
RoundsResolve == \E p \in Peers : RoundResolves(p)
ListenersReplaced == \E p \in Peers : ListenerReplaced(p)

NextEndToEnd ==
    \/ PeersAvailable
    \/ ClientsRead
    \/ ClientsGiveUp
    \/ RoundsResolve
    \/ ListenersReplaced

\* Availability events, connections, messages, closes and callbacks are
\* delivered; giving a connection up is not required to happen.
EndToEndFairness ==
    /\ \A pq \in Pairs :
          /\ WF_allVars(PeerAvailable(pq[1], pq[2]))
          /\ WF_allVars(ClientReads(pq[1], pq[2]))
    /\ \A p \in Peers :
          /\ WF_allVars(RoundResolves(p))
          /\ WF_allVars(ListenerReplaced(p))

SpecEndToEnd == Init /\ [][NextEndToEnd]_allVars /\ EndToEndFairness

\* C25: with participants A, B and C in round 0, every peer eventually has
\* a success-set equal to the participants without itself, and its round
\* promise eventually resolves.
C25_EveryPeerCompletesRoundZero ==
    <>(\A p \in Peers :
          /\ succeededWithOf[p] = Peers \ {p}
          /\ stageOf[p] # "round 0")

----------------------------------------------------------------------------
(* PeerIdentifier, PeerIdentifier.swift lines 17-54; a string is the sequence
   of its characters *)

\* Length of the strings given to init(stringValue:).
MaxStringLength == 4

\* Generation up to which nextGenerationPeer() is called.
MaxGeneration == 3

\* The characters of the strings given to init(stringValue:).
Characters == {"a", "g", "1", "-", ":"}

Strings == UNION {[1..n -> Characters] : n \in 0..MaxStringLength}

\* The strings NSUUID().UUIDString gives (line 24), shortened.
UUIDStrings == {<<"a", "-", "1">>, <<"1", "-", "a">>}

\* The digits of String(_, radix: 16) in the order of their values.
HexDigits ==
    <<"0", "1", "2", "3", "4", "5", "6", "7",
      "8", "9", "a", "b", "c", "d", "e", "f">>

IsHexDigit(c) == \E i \in DOMAIN HexDigits : HexDigits[i] = c

DigitValue(c) == (CHOOSE i \in DOMAIN HexDigits : HexDigits[i] = c) - 1

\* String(n, radix: 16) for n >= 0.
RECURSIVE HexOfNatural(_)
HexOfNatural(n) ==
    IF n < 16 THEN <<HexDigits[n + 1]>>
    ELSE HexOfNatural(n \div 16) \o <<HexDigits[(n % 16) + 1]>>

\* String(generation, radix: 16), line 52.
HexString(n) == IF n < 0 THEN <<"-">> \o HexOfNatural(-n) ELSE HexOfNatural(n)

\* The value of a sequence of hex digits, read from the left.
RECURSIVE ValueOfDigits(_, _)
ValueOfDigits(digits, value) ==
    IF digits = <<>> THEN value
    ELSE ValueOfDigits(Tail(digits), 16 * value + DigitValue(Head(digits)))

\* Int(text, radix: 16), line 40: an optional sign and one or more digits,
\* else nil.
IntRadix16(text) ==
    LET signed == text # <<>> /\ Head(text) \in {"+", "-"}
        digits == IF signed THEN Tail(text) ELSE text
    IN  IF digits = <<>> \/ \E i \in DOMAIN digits : ~IsHexDigit(digits[i])
        THEN [nil |-> TRUE, value |-> 0]
        ELSE [nil |-> FALSE,
              value |-> IF signed /\ Head(text) = "-"
                        THEN -ValueOfDigits(digits, 0)
                        ELSE ValueOfDigits(digits, 0)]

\* stringValue.characters.split { $0 == ":" }, lines 34-36: the maximal
\* runs of characters other than ":", empty ones left out.
RECURSIVE SplitOnColon(_, _, _)
SplitOnColon(rest, part, parts) ==
    LET closed == IF part = <<>> THEN parts ELSE Append(parts, part)
    IN  IF rest = <<>> THEN closed
        ELSE IF Head(rest) = ":" THEN SplitOnColon(Tail(rest), <<>>, closed)
        ELSE SplitOnColon(Tail(rest), Append(part, Head(rest)), parts)

StringValueDecimal(peer) ==
    peer.uuid \o <<":">> \o
       (IF peer.generation < 10 THEN HexString(peer.generation)
        ELSE HexString(peer.generation \div 10)
                \o HexString(peer.generation % 10))

\* stringValue, lines 51-53.
StringValue(peer) == peer.uuid \o <<":">> \o HexString(peer.generation)

\* init(stringValue:), lines 33-45.
InitStringValue(string) ==
    LET parts == SplitOnColon(string, <<>>, <<>>)
    IN  IF Len(parts) # 2
        THEN [threw |-> TRUE, peer |-> NoPeerIdentifier]
        ELSE IF IntRadix16(parts[2]).nil
        THEN [threw |-> TRUE, peer |-> NoPeerIdentifier]
        ELSE [threw |-> FALSE,
              peer |-> PeerIdentifierValue(parts[1], IntRadix16(parts[2]).value)]

NextGenerationPeerSame(peer) == peer

\* nextGenerationPeer(), lines 47-49.
NextGenerationPeerOp(peer) ==
    PeerIdentifierValue(peer.uuid, peer.generation + 1)

\* init(), lines 23-26.
InitPeer ==
    /\ \E uuid \in UUIDStrings :
          /\ peerIdentifier' = PeerIdentifierValue(uuid, 0)
          /\ lastCall' = [NoCall EXCEPT !.op = "init",
                                        !.result = peerIdentifier']
    /\ generations' = <<0>>
    /\ fromInit' = TRUE
    /\ UNCHANGED <<stringValue, nonPeerIdentifierVars>>

\* The peer is advertised again as nextGenerationPeer() of the value held.
NextGenerationPeer ==
    /\ ~peerIdentifier.none
    /\ peerIdentifier.generation < MaxGeneration
    /\ peerIdentifier' = NextGenerationPeerOp(peerIdentifier)
    /\ generations' = Append(generations, peerIdentifier'.generation)
    /\ lastCall' = [NoCall EXCEPT !.op = "nextGenerationPeer",
                                  !.before = peerIdentifier,
                                  !.result = peerIdentifier']
    /\ UNCHANGED <<fromInit, stringValue, nonPeerIdentifierVars>>

\* try PeerIdentifier(stringValue: stringValue); the value held is kept if
\* it throws.
InitFromString ==
    /\ LET r == InitStringValue(stringValue)
       IN  /\ lastCall' = [NoCall EXCEPT !.op = "init(stringValue:)",
                                         !.threw = r.threw,
                                         !.result = r.peer]
           /\ IF r.threw
              THEN UNCHANGED <<peerIdentifier, generations, fromInit>>
              ELSE /\ peerIdentifier' = r.peer
                   /\ generations' = <<r.peer.generation>>
                   /\ fromInit' = FALSE
    /\ UNCHANGED <<stringValue, nonPeerIdentifierVars>>

\* try PeerIdentifier(stringValue: p.stringValue) for the value p held.
RoundTrip ==
    /\ ~peerIdentifier.none
    /\ LET r == InitStringValue(StringValue(peerIdentifier))
       IN  lastCall' = [NoCall EXCEPT !.op = "round trip",
                                      !.threw = r.threw,
                                      !.before = peerIdentifier,
                                      !.result = r.peer]
    /\ UNCHANGED <<peerIdentifier, generations, fromInit, stringValue,
                   nonPeerIdentifierVars>>

NextPeerIdentifier ==
    \/ InitPeer
    \/ NextGenerationPeer
    \/ InitFromString
    \/ RoundTrip

\* Any string of the bounded length may be the one given to
\* init(stringValue:).
InitPeerIdentifier ==
    /\ ServerInit
    /\ QuitSignalInit
    /\ ValidationIdle
    /\ RoundInit
    /\ EndToEndInit
    /\ AvailabilityInit
    /\ NotificationInit
    /\ \E s \in Strings : PeerIdentifierStart(s)

SpecPeerIdentifier == InitPeerIdentifier /\ [][NextPeerIdentifier]_allVars

----------------------------------------------------------------------------
(* Properties of PeerIdentifier *)

\* The positions at which a ':'-separated part of s starts and ends.
PartStarts(s) ==
    {i \in DOMAIN s : s[i] # ":" /\ (i = 1 \/ s[i - 1] = ":")}

PartEnds(s) ==
    {i \in DOMAIN s : s[i] # ":" /\ (i = Len(s) \/ s[i + 1] = ":")}

\* The second part of a string that has two.
SecondPart(s) ==
    LET first == CHOOSE i \in PartStarts(s) : \A j \in PartStarts(s) : i >= j
        last == CHOOSE i \in PartEnds(s) : \A j \in PartEnds(s) : i >= j
    IN  SubSeq(s, first, last)

\* A base-16 integer: digits 0-9 and a-f after an optional sign.
IsBase16Integer(t) ==
    LET digits == IF t # <<>> /\ t[1] \in {"+", "-"}
                  THEN SubSeq(t, 2, Len(t)) ELSE t
    IN  /\ digits # <<>>
        /\ \A i \in DOMAIN digits :
              digits[i] \in {"0", "1", "2", "3", "4", "5", "6", "7", "8", "9",
                             "a", "b", "c", "d", "e", "f"}

\* C26: parsing p.stringValue gives an identifier with the uuid and the
\* generation of p, for every identifier p; a string that does not split
\* into exactly two ':'-separated parts, or whose second part is not a
\* base-16 integer, fails with WrongDataFormat.
C26_StringValueRoundTrips ==
    /\ lastCall.op = "round trip"
          => /\ ~lastCall.threw
             /\ lastCall.result.uuid = lastCall.before.uuid
             /\ lastCall.result.generation = lastCall.before.generation
    /\ (lastCall.op = "init(stringValue:)"
          /\ (\/ Cardinality(PartStarts(stringValue)) # 2
              \/ ~IsBase16Integer(SecondPart(stringValue))))
          => lastCall.threw

\* C26 witness: an identifier parsed from a string, of a generation that
\* takes a letter in base 16, was serialized and parsed back.
C26_Witness ==
    /\ lastCall.op = "round trip"
    /\ ~fromInit
    /\ lastCall.before.generation >= 10
    /\ lastCall.result = lastCall.before

\* C27: nextGenerationPeer() gives an identifier with the same uuid and a
\* generation exactly one greater, so the generations of the identifiers
\* advertised one after the other from init() on are 0, 1, 2, ...
C27_GenerationIncreasesByOne ==
    /\ lastCall.op = "nextGenerationPeer"
          => /\ lastCall.result.uuid = lastCall.before.uuid
             /\ lastCall.result.generation = lastCall.before.generation + 1
    /\ fromInit => \A i \in DOMAIN generations : generations[i] = i - 1

\* C27 witness: the third identifier of a chain that init() began.
C27_Witness ==
    /\ fromInit
    /\ lastCall.op = "nextGenerationPeer"
    /\ generations = <<0, 1, 2>>

\* C28: every PeerIdentifier value constructed, by init(), by
\* nextGenerationPeer() or by a successful init(stringValue:), has a
\* generation of at least 0.
C28_GenerationNotNegative ==
    ~peerIdentifier.none => peerIdentifier.generation >= 0

----------------------------------------------------------------------------
(* The availability test, testThaliMobileNative.js lines 878-936, and the
   native transport *)

\* peerAvailabilityChanged events the transport holds for delivery at once.
MaxQueuedEvents == 3

StartMethods ==
    {"startListeningForAdvertisements", "startUpdateAdvertisingAndListening"}

StopMethods ==
    {"stopListeningForAdvertisements", "stopAdvertisingAndListening"}

TransportAfterStopKeeps(method, inEffect) ==
    IF method = "startListeningForAdvertisements"
    THEN inEffect \cup {"listening"}
    ELSE IF method = "startUpdateAdvertisingAndListening"
    THEN inEffect \cup {"advertising"}
    ELSE IF method = "stopAdvertisingAndListening"
    THEN inEffect \ {"advertising"}
    ELSE inEffect

\* The transport: what is in effect once a native method has completed.
TransportAfter(method, inEffect) ==
    IF method = "startListeningForAdvertisements"
    THEN inEffect \cup {"listening"}
    ELSE IF method = "startUpdateAdvertisingAndListening"
    THEN inEffect \cup {"advertising"}
    ELSE IF method = "stopListeningForAdvertisements"
    THEN inEffect \ {"listening"}
    ELSE inEffect \ {"advertising"}

\* The transport finds peers only while a start method is in effect.
CanEmit(inEffect) == inEffect # {}

\* The native method the callback of a completed one calls, lines 891, 911
\* and 931; none after the last of each chain.
CalledNext(method) ==
    IF method = "startUpdateAdvertisingAndListening"
    THEN <<"startListeningForAdvertisements">>
    ELSE IF method = "stopAdvertisingAndListening"
    THEN <<"stopListeningForAdvertisements">>
    ELSE <<>>

\* The callback registered for peerAvailabilityChanged, lines 901-923.
AvailabilityHandlerOp(ready, gotFirst) ==
    [fails |-> ~ready,
     gotFirstChanged |-> gotFirst \/ ready,
     calls |-> IF ready /\ ~gotFirst
               THEN <<"stopAdvertisingAndListening">> ELSE <<>>]

\* The timer of lines 925-935 fires.
StartTimerFires ==
    /\ availabilityPhase = "waiting"
    /\ availabilityPhase' = "started"
    /\ readyToReceiveEvents' = TRUE
    /\ pendingCalls' = Append(pendingCalls, "startUpdateAdvertisingAndListening")
    /\ startCalled' = TRUE
    /\ UNCHANGED <<methodsInEffect, eventQueue, completedStops,
                   gotFirstChanged, tooSoon, nonAvailabilityVars>>

\* The native call made first completes and its callback runs.
NativeCompletes ==
    /\ pendingCalls # <<>>
    /\ LET method == Head(pendingCalls)
       IN  /\ methodsInEffect' = TransportAfter(method, methodsInEffect)
           /\ pendingCalls' = Tail(pendingCalls) \o CalledNext(method)
           /\ completedStops' =
                 IF method \in StopMethods
                 THEN completedStops \cup {method} ELSE completedStops
           /\ availabilityPhase' =
                 IF method = "stopListeningForAdvertisements"
                 THEN "draining" ELSE availabilityPhase
    /\ UNCHANGED <<startCalled, eventQueue, readyToReceiveEvents,
                   gotFirstChanged, tooSoon, nonAvailabilityVars>>

\* The transport finds a peer and queues a peerAvailabilityChanged event.
TransportEmits ==
    /\ CanEmit(methodsInEffect)
    /\ Len(eventQueue) < MaxQueuedEvents
    /\ \E peerAvailable \in BOOLEAN :
          eventQueue' = Append(eventQueue, peerAvailable)
    /\ UNCHANGED <<methodsInEffect, startCalled, pendingCalls, completedStops,
                   readyToReceiveEvents, gotFirstChanged, tooSoon,
                   availabilityPhase, nonAvailabilityVars>>

\* A queued event is delivered to the registered callback.
Deliver ==
    /\ eventQueue # <<>>
    /\ eventQueue' = Tail(eventQueue)
    /\ LET op == AvailabilityHandlerOp(readyToReceiveEvents, gotFirstChanged)
       IN  /\ tooSoon' = (tooSoon \/ op.fails)
           /\ gotFirstChanged' = op.gotFirstChanged
           /\ pendingCalls' = pendingCalls \o op.calls
    /\ UNCHANGED <<methodsInEffect, startCalled, completedStops,
                   readyToReceiveEvents, availabilityPhase,
                   nonAvailabilityVars>>

\* The timer of lines 913-918 fires, one second after the stops.
DrainTimerFires ==
    /\ availabilityPhase = "draining"
    /\ availabilityPhase' = "closing"
    /\ readyToReceiveEvents' = FALSE
    /\ UNCHANGED <<methodsInEffect, startCalled, eventQueue, pendingCalls,
                   completedStops, gotFirstChanged, tooSoon,
                   nonAvailabilityVars>>

\* The timer of lines 915-917 fires: t.end().
EndTimerFires ==
    /\ availabilityPhase = "closing"
    /\ availabilityPhase' = "ended"
    /\ UNCHANGED <<methodsInEffect, startCalled, eventQueue, pendingCalls,
                   completedStops, readyToReceiveEvents, gotFirstChanged,
                   tooSoon, nonAvailabilityVars>>

NextAvailability ==
    \/ StartTimerFires
    \/ NativeCompletes
    \/ TransportEmits
    \/ Deliver
    \/ DrainTimerFires
    \/ EndTimerFires

SpecAvailability == Init /\ [][NextAvailability]_allVars

----------------------------------------------------------------------------
(* Properties of the beacons a start() publishes *)

\* The keys of a list, as a set.
KeysOf(publicKeysToNotify) ==
    {publicKeysToNotify[i] : i \in DOMAIN publicKeysToNotify}

\* The start() calls whose body has run with a non-empty list of valid keys.
GeneratingStarts ==
    {id \in BegunStarts :
        /\ calls[id].arg.isArray
        /\ calls[id].arg.keys # <<>>
        /\ KeysOf(calls[id].arg.keys) \subseteq ValidKeys}

----------------------------------------------------------------------------
(* Properties of the client role and of the server role of a round *)

\* The round whose clientRound started the attempt a.
RoundOf(a) == batches[a.batch].round

\* The attempts a step starts: those handed to connectToPeer, line 1160.
StartedAttempts(before, after) ==
    {b \in after \ before : b.stage = "connecting"}

\* C32: within a round no two connection attempts for the same
\* peerIdentifier are in flight, every peer with an attempt in flight is in
\* the resolving set, and a listener call starts no attempt for a peer that
\* is in that set.
C32_OneAttemptPerPeer ==
    /\ [](\A a, b \in attempts :
            (a.peer = b.peer /\ RoundOf(a) = RoundOf(b)) => a = b)
    /\ [](\A a \in attempts : a.peer \in peersWeAreOrHaveResolved[RoundOf(a)])
    /\ [][\A b \in StartedAttempts(attempts, attempts') :
             b.peer \notin peersWeAreOrHaveResolved[batches'[b.batch].round]
         ]_roundVars

\* C32 witness: the listener was called a second time while the attempt for
\* "p1" of its first call was in flight, and started one for "p2" only.
C32_Witness ==
    /\ Len(batches) = 2
    /\ attempts = {[batch |-> 1, peer |-> "p1", stage |-> "exchanging"],
                   [batch |-> 2, peer |-> "p2", stage |-> "connecting"]}
    /\ peersWeAreOrHaveResolved[0] = {"p1", "p2"}

\* C33: a non-fatal failure of a connection attempt removes the peer from
\* the resolving set, rejects neither its batch nor the client role and
\* raises no QuitSignal; such a failure can end any attempt in flight; and a
\* peer that is not in the resolving set is attempted by the next listener
\* call that reports it available.
C33_NonFatalFailureRetries ==
    /\ [][\A a \in attempts :
             Recovered(a)
                => /\ a.peer \notin peersWeAreOrHaveResolved'[RoundOf(a)]
                   /\ batches'[a.batch].rejected = batches[a.batch].rejected
                   /\ clientPromise' = clientPromise
                   /\ signals' = signals]_roundVars
    /\ [](\A a \in attempts :
            ENABLED ((ConnectSettles \/ ExchangeSettles) /\ Recovered(a)))
    /\ [](\A p \in PeerIdentifiers :
            (/\ boundListener # NoListener
             /\ Len(batches) < MaxBatches
             /\ ~VerifyPeers(peersWeSucceededWith[boundListener])
             /\ p \notin peersWeAreOrHaveResolved[boundListener])
               => ENABLED (/\ ListenerCall
                           /\ [batch |-> Len(batches) + 1, peer |-> p,
                               stage |-> "connecting"] \in attempts'))

\* C33 witness: the attempts of the first listener call are over, none of
\* them succeeded, the batch was not rejected, the QuitSignal is not raised,
\* the client role is pending and "p1" is attempted by the second call.
C33_Witness ==
    /\ Len(batches) = 2
    /\ batches[1].waiting = 0 /\ ~batches[1].rejected
    /\ batches[1].state = "done"
    /\ attempts = {[batch |-> 2, peer |-> "p1", stage |-> "connecting"]}
    /\ peersWeAreOrHaveResolved[0] = {"p1"}
    /\ peersWeSucceededWith[0] = {}
    /\ clientPromise[0] = "pending"
    /\ ~signals[clientSignalOf[0]].raised

\* The catch of Promise.all(peerPromises) runs for batch k in this step.
BatchCatchRuns(k) ==
    /\ batches[k].rejected
    /\ batches[k].state = "pending"
    /\ batches'[k].state = "done"

\* The catch of a batch with a fatal outcome is due while it has not run,
\* and a client role that was rejected stays rejected.
FatalIsHandled ==
    /\ [](\A k \in DOMAIN batches :
            (batches[k].rejected /\ batches[k].state = "pending")
               => ENABLED (BatchCatch /\ batches'[k].state = "done"))
    /\ [][\A r \in Rounds :
             clientPromise[r] = "rejected" => clientPromise'[r] = "rejected"
         ]_roundVars

\* C34 as stated: when an exchange of a round is classified fatal, the
\* round's QuitSignal is raised and the client role is rejected, and the
\* role never resolves afterwards.
C34_FatalRejectsRound ==
    /\ FatalIsHandled
    /\ [][\A k \in DOMAIN batches :
             BatchCatchRuns(k)
                => /\ signals'[clientSignalOf[batches[k].round]].raised
                   /\ clientPromise'[batches[k].round] = "rejected"
         ]_roundVars

\* C34 amended: when an exchange of a round is classified fatal, the round's
\* QuitSignal is raised, and the client role is rejected unless it had
\* resolved before; a client role that was rejected never resolves.
C34_FatalRejectsPendingRound ==
    /\ FatalIsHandled
    /\ [][\A k \in DOMAIN batches :
             BatchCatchRuns(k)
                => /\ signals'[clientSignalOf[batches[k].round]].raised
                   /\ clientPromise'[batches[k].round] =
                         IF clientPromise[batches[k].round] = "resolved"
                         THEN "resolved" ELSE "rejected"
         ]_roundVars

\* C34 witness: a batch had a fatal outcome, its catch has run, the
\* QuitSignal of the round is raised and the client role is rejected.
C34_Witness ==
    \E k \in DOMAIN batches :
       /\ batches[k].rejected
       /\ batches[k].state = "done"
       /\ signals[clientSignalOf[batches[k].round]].raised
       /\ clientPromise[batches[k].round] = "rejected"

\* C35: no connection attempt is started with a QuitSignal that has been
\* raised.
C35_NoAttemptAfterRaise ==
    [][\A b \in StartedAttempts(attempts, attempts') :
          ~signals[clientSignalOf[batches'[b.batch].round]].raised]_roundVars

\* C36: the succeeded-set of a round only grows, and a round starts with an
\* empty succeeded-set and an empty resolving set.
C36_SucceededSetGrowsAndResets ==
    /\ [][\A r \in Rounds :
             peersWeSucceededWith[r] \subseteq peersWeSucceededWith'[r]
         ]_roundVars
    /\ [][\A r \in Rounds :
             (clientPromise[r] = "none" /\ clientPromise'[r] # "none")
                => /\ peersWeSucceededWith'[r] = {}
                   /\ peersWeAreOrHaveResolved'[r] = {}]_roundVars
    /\ [](\A r \in Rounds :
            clientPromise[r] = "none"
               => /\ peersWeSucceededWith[r] = {}
                  /\ peersWeAreOrHaveResolved[r] = {})

\* C36 witness: round 0 ended with both participants in its succeeded-set
\* and round 1, started empty, has one.
C36_Witness ==
    /\ peersWeSucceededWith[0] = OtherParticipants
    /\ clientPromise[1] = "pending"
    /\ peersWeSucceededWith[1] = {"B"}
    /\ peersWeAreOrHaveResolved[1] = ParticipantIdentifiers

\* C38: an error of connectToPeer or of the exchange never rejects the peer
\* promise, whatever fatal flag it carried; a batch is rejected only by an
\* attempt that had connected and was exchanging.
C38_ConnectionFailuresAreNonFatal ==
    /\ [](\A carried \in BOOLEAN :
            /\ ~PeerCatch(ConnectCatch(ErrorWith(carried))).rejects
            /\ PeerCatch(ConnectCatch(ErrorWith(carried))).deletes
            /\ ~PeerCatch(ExchangeCatch(ErrorWith(carried))).rejects
            /\ PeerCatch(ExchangeCatch(ErrorWith(carried))).deletes)
    /\ [][\A k \in DOMAIN batches :
             (~batches[k].rejected /\ batches'[k].rejected)
                => \E a \in attempts \ attempts' :
                      a.batch = k /\ a.stage = "exchanging"]_roundVars

\* C38 witness: every attempt of the first listener call has failed, the
\* then callback of the batch has run, and the client role goes on.
C38_Witness ==
    /\ Len(batches) = 1
    /\ batches[1].state = "done" /\ ~batches[1].rejected
    /\ attempts = {}
    /\ peersWeAreOrHaveResolved[0] = {}
    /\ peersWeSucceededWith[0] = {}
    /\ clientPromise[0] = "pending"

\* The connections of round r whose request came from a participant other
\* than the local one, with the canonical payload and the code of round r,
\* and on which the peer's 'end' has been seen.
GoodRequestsEnded(r) ==
    {i \in DOMAIN sockets :
       /\ sockets[i].round = r
       /\ sockets[i].peerEnded
       /\ IsParticipant(sockets[i].request.uuid)
       /\ sockets[i].request.uuid # LocalUuid
       /\ IsCanonical(sockets[i].request.bulkData)
       /\ CodeIsRound(sockets[i].request.code, r)}

\* C39: every uuid in validPeersForThisRound of round r is the uuid of a
\* request that came from a participant other than the local one with the
\* canonical payload and the code of round r; no other request is counted.
C39_CountedRequestsAreValid ==
    \A r \in Rounds :
       /\ Len(validPeersForThisRound[r]) = Cardinality(GoodRequestsEnded(r))
       /\ \A k \in DOMAIN validPeersForThisRound[r] :
             \E i \in GoodRequestsEnded(r) :
                sockets[i].request.uuid = validPeersForThisRound[r][k]

\* C39 witness: a request of round 0 from "B" was counted, and one of round
\* 1 from "C", ended by the peer, was not.
C39_Witness ==
    \E i, j \in DOMAIN sockets :
       /\ sockets[i].request =
             [uuid |-> "B", code |-> "0", bulkData |-> BulkMessage]
       /\ sockets[j].request =
             [uuid |-> "C", code |-> "1", bulkData |-> BulkMessage]
       /\ sockets[i].peerEnded /\ sockets[j].peerEnded
       /\ validPeersForThisRound[0] = <<"B">>

----------------------------------------------------------------------------
(* Properties of the transport calls of the notification server *)

\* The calls whose ThaliMobile call has not completed.
OutstandingTransportCalls == {id \in 1..Len(calls) : transport[id] = "pending"}

\* C37: at most one ThaliMobile call made by the server is outstanding, and
\* a queued function begins only when none is.
C37_OneTransportCallOutstanding ==
    /\ [](Cardinality(OutstandingTransportCalls) <= 1)
    /\ [][Len(beginOrder') > Len(beginOrder)
             => OutstandingTransportCalls = {}]_vars

----------------------------------------------------------------------------
(* The test 'Client to server request coordinated', testThaliNotification.js
   lines 25-32, 94-140 and 147-275, with the notification client *)

\* Generations of beacons a remote peer serves in one run.
MaxEpoch == 2

\* Requests to /hello counted per peer, and requests with an unknown PSK
\* identity counted, in one run.
MaxCount == 1

\* initiateHttpsRequestToPeer gives up when requestNumber is above this,
\* line 98.
MaxRequestNumber == 3

\* The value a forEach callback returns for one key, lines 27-29; forEach
\* discards it.
NonZeroCallback(value) == IF value = 0 THEN "false" ELSE "undefined"

\* allDictionaryItemsNonZero(dictionary), lines 25-32: the callback runs for
\* every key, and the function returns true at line 31.
AllDictionaryItemsNonZero(dictionary) ==
    LET returned == [key \in DOMAIN dictionary |->
                        NonZeroCallback(dictionary[key])]
    IN  TRUE

ShouldEmitAlways(previous, parsed) == TRUE

\* The client's dedupe: an event is emitted when the beacons parsed differ
\* from those of the last successful fetch from that peer.
ShouldEmit(previous, parsed) == parsed # previous

\* The dedupe state of a client that is stopped, or just started.
NoDedupeState == [h \in PublicKeyHashes |-> 0]

\* The calls of lines 266-275 have completed: the client is started.
ClientStarts ==
    /\ ~clientListening
    /\ ~coordinatedResult.checked
    /\ clientListening' = TRUE
    /\ lastFetched' = NoDedupeState
    /\ UNCHANGED <<beaconEpochOf, emittedEpochs, peerAdvertisesDataForUsEvents,
                   peerRepliedToUs, peerRequestedUs, failedPskIdentityCount,
                   httpsRequests, coordinatedResult, nonNotificationVars>>

\* A remote participant generates new beacons.
PeerRegenerates ==
    /\ \E h \in PublicKeyHashes :
          /\ beaconEpochOf[h] < MaxEpoch
          /\ beaconEpochOf' = [beaconEpochOf EXCEPT ![h] = @ + 1]
    /\ UNCHANGED <<clientListening, lastFetched, emittedEpochs,
                   peerAdvertisesDataForUsEvents, peerRepliedToUs,
                   peerRequestedUs, failedPskIdentityCount, httpsRequests,
                   coordinatedResult, nonNotificationVars>>

\* The transport reports a peer available and the client fetches its beacons:
\* the fetch fails, or the beacons are parsed and, when they are new, the
\* client emits PeerAdvertisesDataForUs and the test's handler runs (lines
\* 225-238): it counts the event and makes an https request to the peer.
PeerAvailabilityFetched ==
    /\ clientListening
    /\ \E h \in PublicKeyHashes : \E fetched \in BOOLEAN :
          LET parsed == beaconEpochOf[h]
          IN  IF fetched /\ ShouldEmit(lastFetched[h], parsed)
              THEN /\ Len(emittedEpochs[h]) <= MaxEpoch
                   /\ lastFetched' = [lastFetched EXCEPT ![h] = parsed]
                   /\ emittedEpochs' =
                         [emittedEpochs EXCEPT ![h] = Append(@, parsed)]
                   /\ peerAdvertisesDataForUsEvents' =
                         [peerAdvertisesDataForUsEvents EXCEPT ![h] = @ + 1]
                   /\ httpsRequests' = httpsRequests \cup
                         {[keyId |-> h, event |-> Len(emittedEpochs[h]) + 1,
                           requestNumber |-> 1]}
              ELSE UNCHANGED <<lastFetched, emittedEpochs,
                               peerAdvertisesDataForUsEvents, httpsRequests>>
    /\ UNCHANGED <<beaconEpochOf, clientListening, peerRepliedToUs,
                   peerRequestedUs, failedPskIdentityCount, coordinatedResult,
                   nonNotificationVars>>

\* An https request to a peer ends: with the text 'Hello world' (lines
\* 121-131), with another text, or with an error, after which it is made
\* again unless its number has passed the maximum (lines 98-100, 134-137).
HttpsRequestEnds ==
    /\ \E request \in httpsRequests :
       \E outcome \in {"hello", "other", "error"} :
          /\ peerRepliedToUs' =
                IF outcome = "hello"
                THEN [peerRepliedToUs EXCEPT ![request.keyId] = @ + 1]
                ELSE peerRepliedToUs
          /\ httpsRequests' =
                IF outcome = "error"
                      /\ request.requestNumber + 1 <= MaxRequestNumber
                THEN (httpsRequests \ {request}) \cup
                        {[request EXCEPT !.requestNumber = @ + 1]}
                ELSE httpsRequests \ {request}
    /\ UNCHANGED <<beaconEpochOf, clientListening, lastFetched, emittedEpochs,
                   peerAdvertisesDataForUsEvents, peerRequestedUs,
                   failedPskIdentityCount, coordinatedResult,
                   nonNotificationVars>>

\* A request for /hello arrives, lines 201-220: from a participant whose
\* PSK identity is known, or with no known identity.
HelloWorld ==
    /\ \/ \E h \in PublicKeyHashes :
             /\ peerRequestedUs[h] < MaxCount
             /\ peerRequestedUs' = [peerRequestedUs EXCEPT ![h] = @ + 1]
             /\ UNCHANGED failedPskIdentityCount
       \/ /\ failedPskIdentityCount < MaxCount
          /\ failedPskIdentityCount' = failedPskIdentityCount + 1
          /\ UNCHANGED peerRequestedUs
    /\ UNCHANGED <<beaconEpochOf, clientListening, lastFetched, emittedEpochs,
                   peerAdvertisesDataForUsEvents, peerRepliedToUs,
                   httpsRequests, coordinatedResult, nonNotificationVars>>

\* The timer of lines 240-265 fires and the stops succeed: the client is
\* stopped and the final check is made.
FinalCheck ==
    /\ clientListening
    /\ clientListening' = FALSE
    /\ lastFetched' = NoDedupeState
    /\ coordinatedResult' =
          [checked |-> TRUE,
           repliedToUs |-> AllDictionaryItemsNonZero(peerRepliedToUs),
           requestedUs |-> AllDictionaryItemsNonZero(peerRequestedUs),
           noFailedPsk |-> failedPskIdentityCount = 0]
    /\ UNCHANGED <<beaconEpochOf, emittedEpochs, peerAdvertisesDataForUsEvents,
                   peerRepliedToUs, peerRequestedUs, failedPskIdentityCount,
                   httpsRequests, nonNotificationVars>>

NextNotification ==
    \/ ClientStarts
    \/ PeerRegenerates
    \/ PeerAvailabilityFetched
    \/ HttpsRequestEnds
    \/ HelloWorld
    \/ FinalCheck

SpecNotification == Init /\ [][NextNotification]_allVars

C40_AllDictionaryItemsNonZero ==
    coordinatedResult.checked
       => /\ coordinatedResult.repliedToUs =
                (\A h \in PublicKeyHashes : peerRepliedToUs[h] # 0)
          /\ coordinatedResult.requestedUs =
                (\A h \in PublicKeyHashes : peerRequestedUs[h] # 0)

====
